---- MODULE Spec2Model ----
(***************************************************************************)
(* Model of the directory scanner (scanner.py), the Node tree (model.py)   *)
(* and the platform helpers (winutils.py).                                 *)
(*                                                                         *)
(* A directory is named by its path, the sequence of entry names from the  *)
(* scan root (the root is <<>>); an entry name is a small integer.         *)
(***************************************************************************)
EXTENDS Integers, Sequences, FiniteSets, TLC

VARIABLES
    attr,       \* filesystem: entry id -> kind of the directory entry
    layout,     \* filesystem: which directory tree lies under the scan root
    workers,    \* scan_tree argument `workers`
    stop,       \* stop_event.is_set()
    nodes,      \* the Node objects reachable from root, by path
    stack,      \* scan_tree's work stack of (node, path, expanded)
    pc,         \* position of the driving thread inside scan_tree
    cur,        \* the entry popped by the driving thread and its probe result
    futs,       \* futures of the ThreadPoolExecutor of the current expansion
    raised,     \* an exception escaped scan_tree
    probes,     \* path -> number of directory listings started for it
    calls,      \* path -> the arguments of each progress_cb call for it
    run,        \* 1 for the first scan, 2 for the repeated scan
    first,      \* result tree of the first scan
    doc,        \* Node tree handed to to_json
    text,       \* the JSON text written by to_json
    back,       \* Node tree returned by from_json
    jpc,        \* position of the save / load round trip
    arg,        \* arguments of a call of a winutils function
    ret,        \* what that call returned or raised
    upc,        \* which winutils function is called, "returned" after it
    observer,   \* scan_tree argument `progress_cb`: what the callback does
    gui         \* the fields of PfadAnalyseApp that steer a scan

vars == <<attr, layout, workers, stop, nodes, stack, pc, cur, futs, raised,
          probes, calls, run, first, doc, text, back, jpc, arg, ret, upc,
          observer, gui>>

scanVars == <<attr, layout, workers, stop, nodes, stack, pc, cur, futs, raised,
              probes, calls>>
jsonVars == <<doc, text, back, jpc>>
utilVars == <<arg, ret, upc>>
appVars == <<observer, gui>>
aux == <<run, first, doc, text, back, jpc, arg, ret, upc, observer, gui>>

(***************************************************************************)
(* Bounds                                                                  *)
(***************************************************************************)
\* worker count used for the parallel mode
NWorkers == 2
\* deepest path whose directory may still be listed
MaxDepth == 3
\* most entries below the root that are not plain directories
MaxSpecial == 2

DEFAULT_WORKERS == 1

(***************************************************************************)
(* The filesystem under the scan root                                      *)
(***************************************************************************)
EntryIds == 0 .. 4

\* stat: the exception entry.stat(follow_symlinks=False) ends with, if any
FileEntry(s) == [t |-> "file", id |-> 0, size |-> s, stat |-> "none"]
UnreadableFile(s) == [t |-> "file", id |-> 0, size |-> s, stat |-> "OSError"]
DirEntry(i) == [t |-> "dir", id |-> i, size |-> 0, stat |-> "none"]

\* the directory trees that are scanned:
\*   "tree"   a root with a file and two subdirectories, one of them nested
\*   "chain"  root/A/B: A holds a 50-byte file and B, B holds a 25-byte file
\*   "wide"   a root with three subdirectories and a file; the third
\*            subdirectory holds a file whose size cannot be read
Layouts == {"tree", "chain", "wide"}

\* os.scandir(d): the entries of directory d in listing order
Listing(d) ==
    CASE layout = "chain" /\ d = 0 -> <<DirEntry(1)>>
      [] layout = "chain" /\ d = 1 -> <<FileEntry(50), DirEntry(2)>>
      [] layout = "chain" /\ d = 2 -> <<FileEntry(25)>>
      [] layout = "wide" /\ d = 0 -> <<DirEntry(1), DirEntry(2), FileEntry(9), DirEntry(3)>>
      [] layout = "wide" /\ d = 1 -> <<FileEntry(1)>>
      [] layout = "wide" /\ d = 3 -> <<FileEntry(2), UnreadableFile(6), FileEntry(4)>>
      [] layout = "tree" /\ d = 0 -> <<FileEntry(100), DirEntry(1), DirEntry(2)>>
      [] layout = "tree" /\ d = 1 -> <<DirEntry(3), FileEntry(50), DirEntry(4)>>
      [] layout = "tree" /\ d = 2 -> <<FileEntry(7), FileEntry(3)>>
      [] layout = "tree" /\ d = 3 -> <<FileEntry(25)>>
      [] OTHER -> <<>>

\* kinds of a directory entry:
\*   "dir"    plain directory
\*   "hidden" directory that is_hidden_or_system_dir reports
\*   "link"   symlink or junction to the scan root
\*   "eperm"  directory whose scandir raises PermissionError,
\*            FileNotFoundError or NotADirectoryError
\*   "eio"    directory whose scandir raises another exception
Kinds == {"dir", "hidden", "link", "eperm", "eio"}

\* kinds of an entry whose is_dir / is_file call fails:
\*   "cperm"   PermissionError or FileNotFoundError
\*   "cnotdir" NotADirectoryError
\*   "cio"     another exception
FailingKinds == {"cperm", "cnotdir", "cio"}

\* "gone": a directory that was removed, os.scandir does not list it any more
Listed(e) == ~(e.t = "dir" /\ attr[e.id] = "gone")
RootKinds == {"dir", "hidden", "eperm"}

\* the directory entry a path names
Ent(path) == IF path = <<>> THEN 0 ELSE path[Len(path)]

\* the directory that scandir opens for an entry (a link is followed by the OS)
Resolve(e) == IF attr[e] = "link" THEN 0 ELSE e

(***************************************************************************)
(* winutils.is_hidden_or_system_dir, entry.is_dir(follow_symlinks=False)   *)
(***************************************************************************)
is_hidden_or_system_dir(e) == attr[e] = "hidden"

\* slip: the stop event is never seen as set
is_set_never == stop /\ ~stop

\* stop_event is not None and stop_event.is_set()
is_set == stop

\* slip: is_dir is asked with follow_symlinks=True
is_dir_followLinks(e) == attr[e] \in Kinds

is_dir(e) == attr[e] # "link"

\* the exception entry.is_dir(follow_symlinks=False) ends with, if any
is_dir_exc(e) ==
    CASE attr[e] = "cperm" -> "PermissionError"
      [] attr[e] = "cnotdir" -> "NotADirectoryError"
      [] attr[e] = "cio" -> "OSError"
      [] OTHER -> "none"

\* slip: the try around the classification of an entry has no handler
SkippedErrors_none == {}

\* except (PermissionError, FileNotFoundError): continue
SkippedErrors == {"PermissionError", "FileNotFoundError"}

\* except (PermissionError, FileNotFoundError, NotADirectoryError): return 0, 0, 0, []
EmptyErrors == {"PermissionError", "FileNotFoundError", "NotADirectoryError"}

(***************************************************************************)
(* gui.PfadAnalyseApp.__init__, scan_tree's progress_cb                    *)
(***************************************************************************)
\* what a progress_cb does when it is called:
\*   "none"     no callback was passed
\*   "returns"  the callback returns
\*   "raises"   the callback raises an exception
Observers == {"none", "returns", "raises"}

\* scanning, _stop_event (variable stop), the result_holder of the running
\* scan, the text of the status label, the main window and the number of
\* scan threads that have not stored a result yet
GuiInit ==
    [scanning |-> FALSE, holder |-> "empty", status |-> "Bereit",
     window |-> "open", alive |-> 0]

\* no scan was started from the window; a callback, if called, returns
AppIdle == observer = "returns" /\ gui = GuiInit

(***************************************************************************)
(* model.Node                                                              *)
(***************************************************************************)
\* phase: Pending (constructed), Probed (immediate counters stored),
\*        Aggregated (totals stored)
NewNode ==
    [immediate_files |-> 0, immediate_dirs |-> 0, immediate_size |-> 0,
     total_files |-> 0, total_dirs |-> 0, total_size |-> 0,
     children |-> <<>>, phase |-> "Pending"]

\* keys of a dict after d[k] = v: an existing key keeps its position
DictSet(keys, k) ==
    IF \E i \in 1 .. Len(keys) : keys[i] = k THEN keys ELSE Append(keys, k)

RECURSIVE DictSetAll(_, _)
DictSetAll(keys, ks) ==
    IF ks = <<>> THEN keys
    ELSE DictSetAll(DictSet(keys, Head(ks)), Tail(ks))

(***************************************************************************)
(* scanner._scan_single_dir                                                *)
(***************************************************************************)
ZeroResult == [files |-> 0, dirs |-> 0, size_sum |-> 0, child_dirs |-> <<>>,
               exc |-> "none"]

\* slip: files += 1 stands after the stat call, inside its try
CountFile_afterStat(r, e) ==
    IF e.stat # "none" THEN r
    ELSE [r EXCEPT !.files = @ + 1, !.size_sum = @ + e.size]

\* files += 1; try: size_sum += entry.stat(...).st_size; except Exception: pass
CountFile(r, e) ==
    [r EXCEPT !.files = @ + 1,
              !.size_sum = @ + (IF e.stat = "none" THEN e.size ELSE 0)]

\* slip: the is_hidden_or_system_dir test is missing
RECURSIVE ScanEntries_keepHidden(_, _, _)
ScanEntries_keepHidden(path, es, k) ==
    IF k = 0 THEN ZeroResult
    ELSE LET r == ScanEntries_keepHidden(path, es, k - 1)
             e == es[k]
         IN  IF r.exc # "none" \/ ~Listed(e) THEN r
             ELSE IF e.t = "dir" /\ is_dir_exc(e.id) # "none"
             THEN IF is_dir_exc(e.id) \in SkippedErrors THEN r
                  ELSE [r EXCEPT !.exc = is_dir_exc(e.id)]
             ELSE IF e.t = "dir" /\ is_dir(e.id)
             THEN [r EXCEPT !.child_dirs = Append(@, path \o <<e.id>>),
                            !.dirs = @ + 1]
             ELSE IF e.t = "file"
                  THEN CountFile(r, e)
                  ELSE r

\* slip: dirs += 1 stands before the is_hidden_or_system_dir test
RECURSIVE ScanEntries_countBeforeTest(_, _, _)
ScanEntries_countBeforeTest(path, es, k) ==
    IF k = 0 THEN ZeroResult
    ELSE LET r == ScanEntries_countBeforeTest(path, es, k - 1)
             e == es[k]
         IN  IF r.exc # "none" \/ ~Listed(e) THEN r
             ELSE IF e.t = "dir" /\ is_dir_exc(e.id) # "none"
             THEN IF is_dir_exc(e.id) \in SkippedErrors THEN r
                  ELSE [r EXCEPT !.exc = is_dir_exc(e.id)]
             ELSE IF e.t = "dir" /\ is_dir(e.id)
             THEN IF is_hidden_or_system_dir(e.id)
                  THEN [r EXCEPT !.dirs = @ + 1]
                  ELSE [r EXCEPT !.child_dirs = Append(@, path \o <<e.id>>),
                                 !.dirs = @ + 1]
             ELSE IF e.t = "file"
                  THEN CountFile(r, e)
                  ELSE r

\* the accumulators after the first k entries of the listing
RECURSIVE ScanEntries(_, _, _)
ScanEntries(path, es, k) ==
    IF k = 0 THEN ZeroResult
    ELSE LET r == ScanEntries(path, es, k - 1)
             e == es[k]
         IN  IF r.exc # "none" \/ ~Listed(e) THEN r
             ELSE IF e.t = "dir" /\ is_dir_exc(e.id) # "none"
             THEN IF is_dir_exc(e.id) \in SkippedErrors THEN r
                  ELSE [r EXCEPT !.exc = is_dir_exc(e.id)]
             ELSE IF e.t = "dir" /\ is_dir(e.id)
             THEN IF is_hidden_or_system_dir(e.id)
                  THEN r
                  ELSE [r EXCEPT !.child_dirs = Append(@, path \o <<e.id>>),
                                 !.dirs = @ + 1]
             ELSE IF e.t = "file"
                  THEN CountFile(r, e)
                  ELSE r

\* slip: only the three named errors are caught, any other one propagates
scan_single_dir_noCatchAll(path, k) ==
    LET d == Ent(path) IN
    IF attr[d] = "eperm" THEN ZeroResult
    ELSE IF attr[d] = "eio" THEN [ZeroResult EXCEPT !.exc = "OSError"]
    ELSE LET r == ScanEntries(path, Listing(Resolve(d)), k)
         IN  IF r.exc \in EmptyErrors THEN ZeroResult ELSE r

\* the result of _scan_single_dir when the entry loop is left after k entries
scan_single_dir(path, k) ==
    LET d == Ent(path) IN
    IF attr[d] = "eperm" THEN ZeroResult
    ELSE IF attr[d] = "eio" THEN ZeroResult
    ELSE LET r == ScanEntries(path, Listing(Resolve(d)), k)
         IN  IF r.exc \in EmptyErrors THEN ZeroResult
             ELSE [r EXCEPT !.exc = "none"]

\* slip: the entry loop breaks whenever a stop_event was passed
Cuts_breakWithoutStop(path) == 0 .. Len(Listing(Resolve(Ent(path))))

\* the numbers of entries after which the entry loop can be left
Cuts(path) ==
    LET n == Len(Listing(Resolve(Ent(path)))) IN
    IF is_set THEN 0 .. n ELSE {n}

(***************************************************************************)
(* scanner.scan_tree                                                       *)
(***************************************************************************)
Top == stack[Len(stack)]
Pop == SubSeq(stack, 1, Len(stack) - 1)

Name(cpath) == cpath[Len(cpath)]

RECURSIVE Names(_)
Names(paths) ==
    IF paths = <<>> THEN <<>> ELSE <<Name(Head(paths))>> \o Names(Tail(paths))

Range(s) == {s[i] : i \in 1 .. Len(s)}

\* slip: the children are pushed with the expanded flag set
RECURSIVE Pending_asExpanded(_)
Pending_asExpanded(paths) ==
    IF paths = <<>> THEN <<>>
    ELSE <<[path |-> Head(paths), expanded |-> TRUE]>> \o Pending_asExpanded(Tail(paths))

\* child_nodes: (cn, cpath, False) for every child
RECURSIVE Pending(_)
Pending(paths) ==
    IF paths = <<>> THEN <<>>
    ELSE <<[path |-> Head(paths), expanded |-> FALSE]>> \o Pending(Tail(paths))

\* slip: the totals are preset with the immediate values at probe time
Store_presetTotals(ns, path, res) ==
    LET new == Range(res.child_dirs)
        n1  == [ns[path] EXCEPT
                   !.immediate_files = res.files,
                   !.immediate_dirs = res.dirs,
                   !.immediate_size = res.size_sum,
                   !.total_files = res.files,
                   !.total_dirs = res.dirs,
                   !.total_size = res.size_sum,
                   !.children = DictSetAll(@, Names(res.child_dirs)),
                   !.phase = "Probed"]
    IN  [p \in DOMAIN ns \cup new |->
            IF p = path THEN n1 ELSE IF p \in new THEN NewNode ELSE ns[p]]

\* node.immediate_* = result; node.children[name] = Node(...) for each child
Store(ns, path, res) ==
    LET new == Range(res.child_dirs)
        n1  == [ns[path] EXCEPT
                   !.immediate_files = res.files,
                   !.immediate_dirs = res.dirs,
                   !.immediate_size = res.size_sum,
                   !.children = DictSetAll(@, Names(res.child_dirs)),
                   !.phase = "Probed"]
    IN  [p \in DOMAIN ns \cup new |->
            IF p = path THEN n1 ELSE IF p \in new THEN NewNode ELSE ns[p]]

RECURSIVE SumFiles(_, _, _)
SumFiles(ns, path, ks) ==
    IF ks = <<>> THEN 0
    ELSE ns[path \o <<Head(ks)>>].total_files + SumFiles(ns, path, Tail(ks))

RECURSIVE SumDirs(_, _, _)
SumDirs(ns, path, ks) ==
    IF ks = <<>> THEN 0
    ELSE (1 + ns[path \o <<Head(ks)>>].total_dirs) + SumDirs(ns, path, Tail(ks))

RECURSIVE SumSize(_, _, _)
SumSize(ns, path, ks) ==
    IF ks = <<>> THEN 0
    ELSE ns[path \o <<Head(ks)>>].total_size + SumSize(ns, path, Tail(ks))

\* slip: the children's totals are added without the children themselves
Aggregated_sumWithoutOne(ns, path) ==
    [ns[path] EXCEPT
        !.total_files = ns[path].immediate_files + SumFiles(ns, path, ns[path].children),
        !.total_dirs = ns[path].immediate_dirs + SumDirs(ns, path, ns[path].children)
                         - Len(ns[path].children),
        !.total_size = ns[path].immediate_size + SumSize(ns, path, ns[path].children),
        !.phase = "Aggregated"]

Aggregated(ns, path) ==
    [ns[path] EXCEPT
        !.total_files = ns[path].immediate_files + SumFiles(ns, path, ns[path].children),
        !.total_dirs = ns[path].immediate_dirs + SumDirs(ns, path, ns[path].children),
        !.total_size = ns[path].immediate_size + SumSize(ns, path, ns[path].children),
        !.phase = "Aggregated"]

\* slip: the node is re-pushed above its children
Pushed_selfOnTop(st, path, child_nodes) ==
    (st \o child_nodes) \o <<[path |-> path, expanded |-> TRUE]>>

\* the stack after the node is re-pushed and its children are pushed
Pushed(st, path, child_nodes) ==
    Append(st, [path |-> path, expanded |-> TRUE]) \o child_nodes

ScanInit ==
    /\ attr \in [EntryIds -> Kinds]
    /\ attr[0] \in RootKinds
    /\ Cardinality({e \in EntryIds \ {0} : attr[e] # "dir"}) <= MaxSpecial
    /\ layout \in Layouts
    /\ layout # "tree" => attr = [e \in EntryIds |-> "dir"]
    /\ workers \in {DEFAULT_WORKERS, NWorkers}
    /\ stop \in BOOLEAN
    /\ nodes = [p \in {<<>>} |-> NewNode]
    /\ stack = <<[path |-> <<>>, expanded |-> FALSE]>>
    /\ pc = "loop"
    /\ cur = [path |-> <<>>, res |-> ZeroResult]
    /\ futs = <<>>
    /\ raised = FALSE
    /\ probes = <<>>
    /\ calls = <<>>

\* progress_cb(path, files, dcount, size_sum)
Called(path, res) ==
    [p \in DOMAIN calls \cup {path} |->
        IF p = path
        THEN Append(IF p \in DOMAIN calls THEN calls[p] ELSE <<>>,
                    <<res.files, res.dirs, res.size_sum>>)
        ELSE calls[p]]

Counted(path) ==
    [p \in DOMAIN probes \cup {path} |->
        IF p \in DOMAIN probes
        THEN probes[p] + (IF p = path THEN 1 ELSE 0)
        ELSE 1]

\* while stack: ... if stop_event.is_set(): break
LoopExit ==
    /\ pc = "loop"
    /\ stack = <<>> \/ is_set
    /\ pc' = "done"
    /\ UNCHANGED <<attr, layout, workers, stop, nodes, stack, cur, futs, raised, probes>>
    /\ UNCHANGED <<calls, aux>>

\* slip: the loop does not test the stop event before it pops
PopExpand_afterStop ==
    /\ pc = "loop"
    /\ stack # <<>>
    /\ ~Top.expanded
    /\ stack' = Pop
    /\ cur' = [path |-> Top.path, res |-> ZeroResult]
    /\ pc' = "call"
    /\ UNCHANGED <<attr, layout, workers, stop, nodes, futs, raised, probes>>
    /\ UNCHANGED <<calls, aux>>

\* stack.pop() of an entry that is not expanded
PopExpand ==
    /\ pc = "loop"
    /\ stack # <<>>
    /\ ~is_set
    /\ ~Top.expanded
    /\ stack' = Pop
    /\ cur' = [path |-> Top.path, res |-> ZeroResult]
    /\ pc' = "call"
    /\ UNCHANGED <<attr, layout, workers, stop, nodes, futs, raised, probes>>
    /\ UNCHANGED <<calls, aux>>

\* slip: pending aggregation entries are still folded after the stop event
PopAggregate_afterStop ==
    /\ pc = "loop"
    /\ stack # <<>>
    /\ Top.expanded
    /\ stack' = Pop
    /\ nodes' = [nodes EXCEPT ![Top.path] = Aggregated(nodes, Top.path)]
    /\ UNCHANGED <<attr, layout, workers, stop, pc, cur, futs, raised, probes>>
    /\ UNCHANGED <<calls, aux>>

\* stack.pop() of an expanded entry: totals = immediate + sum of the children
PopAggregate ==
    /\ pc = "loop"
    /\ stack # <<>>
    /\ ~is_set
    /\ Top.expanded
    /\ stack' = Pop
    /\ nodes' = [nodes EXCEPT ![Top.path] = Aggregated(nodes, Top.path)]
    /\ UNCHANGED <<attr, layout, workers, stop, pc, cur, futs, raised, probes>>
    /\ UNCHANGED <<calls, aux>>

\* slip: the test of the stop event at the top of _scan_single_dir is missing
ProbeStart_ignoresStop ==
    /\ pc = "call"
    /\ Len(cur.path) <= MaxDepth
    /\ pc' = "scan"
    /\ probes' = Counted(cur.path)
    /\ UNCHANGED <<attr, layout, workers, stop, nodes, stack, cur, futs, raised>>
    /\ UNCHANGED <<calls, aux>>

\* _scan_single_dir entered by the driving thread
ProbeStart ==
    /\ pc = "call"
    /\ IF is_set
       THEN /\ pc' = "expand"
            /\ UNCHANGED probes
       ELSE /\ Len(cur.path) <= MaxDepth
            /\ pc' = "scan"
            /\ probes' = Counted(cur.path)
    /\ UNCHANGED <<attr, layout, workers, stop, nodes, stack, cur, futs, raised>>
    /\ UNCHANGED <<calls, aux>>

\* _scan_single_dir returns to the driving thread
ProbeFinish ==
    /\ pc = "scan"
    /\ \E k \in Cuts(cur.path) :
          cur' = [cur EXCEPT !.res = scan_single_dir(cur.path, k)]
    /\ pc' = "expand"
    /\ UNCHANGED <<attr, layout, workers, stop, nodes, stack, futs, raised, probes>>
    /\ UNCHANGED <<calls, aux>>

\* slip: the worker count is not tested
UsePool_anyWorkers(n) == n > 0 /\ ~is_set

\* len(child_nodes) > 0 and workers > 1 and not (stop_event and stop_event.is_set())
UsePool(n) == n > 0 /\ workers > 1 /\ ~is_set

\* if progress_cb: progress_cb(path, files, dcount, size_sum)
\* an exception of the callback leaves scan_tree
Notify ==
    /\ calls' = IF observer = "none" THEN calls ELSE Called(cur.path, cur.res)
    /\ raised' = (raised \/ observer = "raises")
    /\ pc' = IF observer = "raises" THEN "done" ELSE "loop"

\* the driving thread stores the result, creates the children and pushes
Expand ==
    /\ pc = "expand"
    /\ LET res == cur.res
           child_nodes == Pending(res.child_dirs)
       IN  IF res.exc # "none"
           THEN /\ raised' = TRUE
                /\ pc' = "done"
                /\ UNCHANGED <<nodes, stack, futs, calls>>
           ELSE /\ nodes' = Store(nodes, cur.path, res)
                /\ IF UsePool(Len(child_nodes))
                   THEN /\ stack' = Append(stack, [path |-> cur.path, expanded |-> TRUE])
                        /\ futs' = [c \in Range(res.child_dirs) |->
                                       [st |-> "queued", res |-> ZeroResult]]
                        /\ pc' = "pool"
                        /\ UNCHANGED <<raised, calls>>
                   ELSE /\ stack' = Pushed(stack, cur.path, child_nodes)
                        /\ futs' = futs
                        /\ Notify
    /\ UNCHANGED <<attr, layout, workers, stop, cur, probes>>
    /\ UNCHANGED aux

Running == {c \in DOMAIN futs : futs[c].st = "running"}

\* slip: every submitted probe gets a thread of its own
WorkerStart_unbounded(c) ==
    /\ pc \in {"pool", "drain"}
    /\ c \in DOMAIN futs
    /\ futs[c].st = "queued"
    /\ IF is_set
       THEN /\ futs' = [futs EXCEPT ![c] = [st |-> "finished", res |-> ZeroResult]]
            /\ UNCHANGED probes
       ELSE /\ Len(c) <= MaxDepth
            /\ futs' = [futs EXCEPT ![c].st = "running"]
            /\ probes' = Counted(c)
    /\ UNCHANGED <<attr, layout, workers, stop, nodes, stack, pc, cur, raised>>
    /\ UNCHANGED <<calls, aux>>

\* a pool thread takes a queued probe and enters _scan_single_dir
WorkerStart(c) ==
    /\ pc \in {"pool", "drain"}
    /\ c \in DOMAIN futs
    /\ futs[c].st = "queued"
    /\ Cardinality(Running) < workers
    /\ IF is_set
       THEN /\ futs' = [futs EXCEPT ![c] = [st |-> "finished", res |-> ZeroResult]]
            /\ UNCHANGED probes
       ELSE /\ Len(c) <= MaxDepth
            /\ futs' = [futs EXCEPT ![c].st = "running"]
            /\ probes' = Counted(c)
    /\ UNCHANGED <<attr, layout, workers, stop, nodes, stack, pc, cur, raised>>
    /\ UNCHANGED <<calls, aux>>

\* slip: the pool thread stores its counts in the child's Node itself
WorkerFinish_writesNode(c) ==
    /\ pc \in {"pool", "drain"}
    /\ c \in DOMAIN futs
    /\ futs[c].st = "running"
    /\ \E k \in Cuts(c) :
          /\ futs' = [futs EXCEPT ![c] = [st |-> "finished", res |-> scan_single_dir(c, k)]]
          /\ nodes' = Store(nodes, c, scan_single_dir(c, k))
    /\ UNCHANGED <<attr, layout, workers, stop, stack, pc, cur, raised, probes>>
    /\ UNCHANGED <<calls, aux>>

\* _scan_single_dir returns in a pool thread
WorkerFinish(c) ==
    /\ pc \in {"pool", "drain"}
    /\ c \in DOMAIN futs
    /\ futs[c].st = "running"
    /\ \E k \in Cuts(c) :
          futs' = [futs EXCEPT ![c] = [st |-> "finished", res |-> scan_single_dir(c, k)]]
    /\ UNCHANGED <<attr, layout, workers, stop, nodes, stack, pc, cur, raised, probes>>
    /\ UNCHANGED <<calls, aux>>

\* slip: the child is pushed as already expanded, so it is never probed by
\* the driving thread and its own children are never visited
Collect_pushExpanded(c) ==
    /\ pc = "pool"
    /\ c \in DOMAIN futs
    /\ futs[c].st = "finished"
    /\ IF is_set
       THEN /\ pc' = "drain"
            /\ UNCHANGED <<nodes, stack, futs>>
       ELSE LET r == futs[c].res
                res == IF r.exc # "none" THEN ZeroResult ELSE r
            IN  /\ nodes' = Store(nodes, c, res)
                /\ stack' = Append(stack, [path |-> c, expanded |-> TRUE])
                /\ futs' = [futs EXCEPT ![c].st = "collected"]
                /\ pc' = pc
    /\ UNCHANGED <<attr, layout, workers, stop, cur, raised, probes>>
    /\ UNCHANGED <<calls, aux>>

\* slip: the child's key is entered into the parent's children mapping when
\* its result arrives, so the mapping is in completion order
Collect_keyOnArrival(c) ==
    /\ pc = "pool"
    /\ c \in DOMAIN futs
    /\ futs[c].st = "finished"
    /\ IF is_set
       THEN /\ pc' = "drain"
            /\ UNCHANGED <<nodes, stack, futs>>
       ELSE LET r == futs[c].res
                res == IF r.exc # "none" THEN ZeroResult ELSE r
            IN  /\ nodes' = [Store(nodes, c, res) EXCEPT
                                ![cur.path].children =
                                    Append(SelectSeq(@, LAMBDA x : x # Name(c)), Name(c))]
                /\ stack' = Append(stack, [path |-> c, expanded |-> FALSE])
                /\ futs' = [futs EXCEPT ![c].st = "collected"]
                /\ pc' = pc
    /\ UNCHANGED <<attr, layout, workers, stop, cur, raised, probes>>
    /\ UNCHANGED <<calls, aux>>

\* one round of `for fut in as_completed(futs)`
Collect(c) ==
    /\ pc = "pool"
    /\ c \in DOMAIN futs
    /\ futs[c].st = "finished"
    /\ IF is_set
       THEN /\ pc' = "drain"
            /\ UNCHANGED <<nodes, stack, futs>>
       ELSE LET r == futs[c].res
                res == IF r.exc # "none" THEN ZeroResult ELSE r
            IN  /\ nodes' = Store(nodes, c, res)
                /\ stack' = Append(stack, [path |-> c, expanded |-> FALSE])
                /\ futs' = [futs EXCEPT ![c].st = "collected"]
                /\ pc' = pc
    /\ UNCHANGED <<attr, layout, workers, stop, cur, raised, probes>>
    /\ UNCHANGED <<calls, aux>>

\* slip: the callback is placed in the else branch of the pool test
PoolExit_noCallback ==
    /\ pc = "pool"
    /\ \A c \in DOMAIN futs : futs[c].st = "collected"
    /\ pc' = "loop"
    /\ futs' = <<>>
    /\ UNCHANGED <<attr, layout, workers, stop, nodes, stack, cur, raised, probes>>
    /\ UNCHANGED <<calls, aux>>

\* as_completed is exhausted and the executor is shut down
PoolExit ==
    /\ pc = "pool"
    /\ \A c \in DOMAIN futs : futs[c].st = "collected"
    /\ futs' = <<>>
    /\ Notify
    /\ UNCHANGED <<attr, layout, workers, stop, nodes, stack, cur, probes>>
    /\ UNCHANGED aux

\* slip: the executor is shut down with wait=False
DrainExit_noWait ==
    /\ pc = "drain"
    /\ pc' = "loop"
    /\ futs' = <<>>
    /\ UNCHANGED <<attr, layout, workers, stop, nodes, stack, cur, raised, probes>>
    /\ calls' = Called(cur.path, cur.res)
    /\ UNCHANGED aux

\* after the break: the executor's shutdown waits for every submitted probe
DrainExit ==
    /\ pc = "drain"
    /\ \A c \in DOMAIN futs : futs[c].st \in {"finished", "collected"}
    /\ futs' = <<>>
    /\ Notify
    /\ UNCHANGED <<attr, layout, workers, stop, nodes, stack, cur, probes>>
    /\ UNCHANGED aux

\* the caller sets the stop event
Cancel ==
    /\ ~stop
    /\ pc # "done"
    /\ stop' = TRUE
    /\ UNCHANGED <<attr, layout, workers, nodes, stack, pc, cur, futs, raised, probes>>
    /\ UNCHANGED <<calls, aux>>

Idle ==
    /\ run = 1
    /\ first = <<>>
    /\ doc = <<>>
    /\ text = <<>>
    /\ back = <<>>
    /\ jpc = "idle"
    /\ arg = <<>>
    /\ ret = <<>>
    /\ upc = "idle"
    /\ AppIdle

Init == ScanInit /\ Idle

Next ==
    \/ LoopExit
    \/ PopExpand
    \/ PopAggregate
    \/ ProbeStart
    \/ ProbeFinish
    \/ Expand
    \/ \E c \in DOMAIN futs : WorkerStart(c)
    \/ \E c \in DOMAIN futs : WorkerFinish(c)
    \/ \E c \in DOMAIN futs : Collect(c)
    \/ PoolExit
    \/ DrainExit
    \/ Cancel

Spec == Init /\ [][Next]_vars

\* the steps of the driving thread and of the pool threads
Walk ==
    \/ LoopExit
    \/ PopExpand
    \/ PopAggregate
    \/ ProbeStart
    \/ ProbeFinish
    \/ Expand
    \/ \E c \in DOMAIN futs : WorkerStart(c)
    \/ \E c \in DOMAIN futs : WorkerFinish(c)
    \/ \E c \in DOMAIN futs : Collect(c)
    \/ PoolExit
    \/ DrainExit

\* directories in which the classification of an entry fails
InitEntry ==
    /\ attr \in [EntryIds -> {"dir"} \cup FailingKinds]
    /\ attr[0] = "dir"
    /\ layout = "tree"
    /\ workers \in {DEFAULT_WORKERS, NWorkers}
    /\ stop \in BOOLEAN
    /\ nodes = [p \in {<<>>} |-> NewNode]
    /\ stack = <<[path |-> <<>>, expanded |-> FALSE]>>
    /\ pc = "loop"
    /\ cur = [path |-> <<>>, res |-> ZeroResult]
    /\ futs = <<>>
    /\ raised = FALSE
    /\ probes = <<>>
    /\ calls = <<>>
    /\ Idle

SpecEntry == InitEntry /\ [][Next]_vars

\* directories with entries of every kind: excluded ones, ones that cannot
\* be listed and ones whose classification fails
InitProbe ==
    /\ attr \in [EntryIds -> Kinds \cup FailingKinds]
    /\ attr[0] = "dir"
    /\ Cardinality({e \in EntryIds \ {0} : attr[e] # "dir"}) <= MaxSpecial
    /\ layout = "tree"
    /\ workers \in {DEFAULT_WORKERS, NWorkers}
    /\ stop \in BOOLEAN
    /\ nodes = [p \in {<<>>} |-> NewNode]
    /\ stack = <<[path |-> <<>>, expanded |-> FALSE]>>
    /\ pc = "loop"
    /\ cur = [path |-> <<>>, res |-> ZeroResult]
    /\ futs = <<>>
    /\ raised = FALSE
    /\ probes = <<>>
    /\ calls = <<>>
    /\ Idle

SpecProbe == InitProbe /\ [][Next]_vars

(***************************************************************************)
(* A directory is removed by another process while the scan runs           *)
(***************************************************************************)
Remove(e) ==
    /\ pc # "done"
    /\ e # 0
    /\ \A x \in EntryIds : attr[x] = "dir"
    /\ attr' = [attr EXCEPT ![e] = "gone"]
    /\ UNCHANGED <<layout, workers, stop, nodes, stack, pc, cur, futs, raised, probes>>
    /\ UNCHANGED <<calls, aux>>

InitChange ==
    /\ Init
    /\ attr = [e \in EntryIds |-> "dir"]
    /\ layout = "tree"

NextChange == Next \/ \E e \in EntryIds : Remove(e)

SpecChange == InitChange /\ [][NextChange]_vars

(***************************************************************************)
(* scan_tree called with any progress_cb                                   *)
(***************************************************************************)
InitObserver ==
    /\ ScanInit
    /\ attr = [e \in EntryIds |-> "dir"]
    /\ layout \in {"tree", "wide"}
    /\ run = 1
    /\ first = <<>>
    /\ doc = <<>>
    /\ text = <<>>
    /\ back = <<>>
    /\ jpc = "idle"
    /\ arg = <<>>
    /\ ret = <<>>
    /\ upc = "idle"
    /\ observer \in Observers
    /\ gui = GuiInit

SpecObserver == InitObserver /\ [][Next]_vars

(***************************************************************************)
(* gui.PfadAnalyseApp started by app.main: scans started, stopped and      *)
(* reported from the window; variable stop is self._stop_event             *)
(***************************************************************************)
\* slip: _start_scan does not look at self.scanning
StartScan_anyway(w) ==
    /\ gui.window = "open"
    /\ gui' = [gui EXCEPT !.scanning = TRUE, !.holder = "empty",
                          !.status = "Scanne", !.alive = @ + 1]
    /\ stop' = FALSE
    /\ workers' = w
    /\ nodes' = [p \in {<<>>} |-> NewNode]
    /\ stack' = <<[path |-> <<>>, expanded |-> FALSE]>>
    /\ pc' = "loop"
    /\ cur' = [path |-> <<>>, res |-> ZeroResult]
    /\ futs' = <<>>
    /\ raised' = FALSE
    /\ probes' = <<>>
    /\ calls' = <<>>
    /\ UNCHANGED <<attr, layout, run, first, jsonVars, utilVars, observer>>

\* cmd_scan_folder, _start_scan: if self.scanning: return; the stop event is
\* cleared, a new result_holder is made and the scan thread is started
StartScan(w) ==
    /\ gui.window = "open"
    /\ ~gui.scanning
    /\ gui' = [gui EXCEPT !.scanning = TRUE, !.holder = "empty",
                          !.status = "Scanne", !.alive = @ + 1]
    /\ stop' = FALSE
    /\ workers' = w
    /\ nodes' = [p \in {<<>>} |-> NewNode]
    /\ stack' = <<[path |-> <<>>, expanded |-> FALSE]>>
    /\ pc' = "loop"
    /\ cur' = [path |-> <<>>, res |-> ZeroResult]
    /\ futs' = <<>>
    /\ raised' = FALSE
    /\ probes' = <<>>
    /\ calls' = <<>>
    /\ UNCHANGED <<attr, layout, run, first, jsonVars, utilVars, observer>>

\* the steps of scan_tree in the scan thread; the thread is a daemon and
\* ends with the process when the main window is destroyed
ScanStep == gui.window = "open" /\ Walk

\* task(): result_holder["node"] = scan_tree(...), or ["err"] = e
TaskDone ==
    /\ gui.window = "open"
    /\ pc = "done"
    /\ gui.alive > 0
    /\ gui.holder = "empty"
    /\ gui' = [gui EXCEPT !.holder = IF raised THEN "err" ELSE "node",
                          !.alive = @ - 1]
    /\ UNCHANGED <<scanVars, run, first, jsonVars, utilVars, observer>>

\* slip: the poll reports every result as complete
Check_neverCancelled ==
    /\ gui.window = "open"
    /\ gui.scanning
    /\ gui.holder # "empty"
    /\ gui' = [gui EXCEPT
                  !.scanning = FALSE,
                  !.status = IF gui.holder = "err" THEN "Fehler"
                             ELSE "abgeschlossen"]
    /\ UNCHANGED <<scanVars, run, first, jsonVars, utilVars, observer>>

\* check(): the poll that finds a result; a poll that finds none only
\* schedules the next one
Check ==
    /\ gui.window = "open"
    /\ gui.scanning
    /\ gui.holder # "empty"
    /\ gui' = [gui EXCEPT
                  !.scanning = FALSE,
                  !.status = IF gui.holder = "err" THEN "Fehler"
                             ELSE IF is_set THEN "abgebrochen"
                             ELSE "abgeschlossen"]
    /\ UNCHANGED <<scanVars, run, first, jsonVars, utilVars, observer>>

\* cmd_stop_scan: if not self.scanning: return; self._stop_event.set()
StopClick ==
    /\ gui.window = "open"
    /\ gui.scanning
    /\ stop' = TRUE
    /\ gui' = [gui EXCEPT !.status = "Abbruch angefordert"]
    /\ UNCHANGED <<attr, layout, workers, nodes, stack, pc, cur, futs, raised, probes>>
    /\ UNCHANGED <<calls, run, first, jsonVars, utilVars, observer>>

\* the WM_DELETE_WINDOW handlers in the order of their registration:
\* PfadAnalyseApp.__init__ registers self._on_close, app.main then on_close
Handlers == <<"_on_close", "on_close">>

\* root.protocol replaces the handler registered before
WmDelete == Handlers[Len(Handlers)]

\* the methods of PfadAnalyseApp that the close handlers call
AppMethods == {"_on_close"}

\* the main window is closed.  app.main's on_close calls app.shutdown(),
\* which PfadAnalyseApp does not define: the AttributeError is passed over,
\* then root.quit() and root.destroy().  _on_close sets the stop event,
\* waits up to 0.8 s for the scan thread and destroys the window.  (A
\* shutdown method, were there one, is taken to stop the scan.)
Close ==
    /\ gui.window = "open"
    /\ stop' = IF WmDelete = "_on_close" \/ "shutdown" \in AppMethods
               THEN TRUE ELSE stop
    /\ gui' = [gui EXCEPT !.window = "destroyed"]
    /\ UNCHANGED <<attr, layout, workers, nodes, stack, pc, cur, futs, raised, probes>>
    /\ UNCHANGED <<calls, run, first, jsonVars, utilVars, observer>>

\* the window after app.main built it: no scan was started yet
InitGui ==
    /\ attr = [e \in EntryIds |-> "dir"]
    /\ layout \in {"tree", "wide"}
    /\ workers = DEFAULT_WORKERS
    /\ stop = FALSE
    /\ nodes = [p \in {<<>>} |-> NewNode]
    /\ stack = <<>>
    /\ pc = "done"
    /\ cur = [path |-> <<>>, res |-> ZeroResult]
    /\ futs = <<>>
    /\ raised = FALSE
    /\ probes = <<>>
    /\ calls = <<>>
    /\ run = 1
    /\ first = <<>>
    /\ doc = <<>>
    /\ text = <<>>
    /\ back = <<>>
    /\ jpc = "idle"
    /\ arg = <<>>
    /\ ret = <<>>
    /\ upc = "idle"
    /\ AppIdle

NextGui ==
    \/ \E w \in {DEFAULT_WORKERS, NWorkers} : StartScan(w)
    \/ ScanStep
    \/ TaskDone
    \/ Check
    \/ StopClick
    \/ Close

SpecGui == InitGui /\ [][NextGui]_vars

\* the threads of the scan keep running while one of them can take a step
SpecLive == Init /\ [][Next]_vars /\ WF_vars(Walk)

(***************************************************************************)
(* The same unchanged directory scanned a second time: first with          *)
(* workers = 1, then with workers = NWorkers                               *)
(***************************************************************************)
Rescan ==
    /\ pc = "done"
    /\ run = 1
    /\ ~stop
    /\ ~raised
    /\ first' = nodes
    /\ run' = 2
    /\ workers' = NWorkers
    /\ nodes' = [p \in {<<>>} |-> NewNode]
    /\ stack' = <<[path |-> <<>>, expanded |-> FALSE]>>
    /\ pc' = "loop"
    /\ cur' = [path |-> <<>>, res |-> ZeroResult]
    /\ futs' = <<>>
    /\ probes' = <<>>
    /\ calls' = <<>>
    /\ UNCHANGED <<attr, layout, stop, raised, doc, text, back, jpc, utilVars, appVars>>

InitTwice == Init /\ workers = DEFAULT_WORKERS

NextTwice == Next \/ Rescan

SpecTwice == InitTwice /\ [][NextTwice]_vars

(***************************************************************************)
(* model.Node: to_dict, from_dict, to_json, from_json                      *)
(*                                                                         *)
(* Here a Node is a record whose children field is the dict in insertion   *)
(* order, a sequence of [key, node] with distinct keys.  A document is the *)
(* dict built by to_dict, its children a list.  The JSON text is the       *)
(* sequence of its tokens.                                                 *)
(***************************************************************************)
MkNode(path, name, c, kids) ==
    [path |-> path, name |-> name,
     immediate_files |-> c[1], immediate_dirs |-> c[2], immediate_size |-> c[3],
     total_files |-> c[4], total_dirs |-> c[5], total_size |-> c[6],
     children |-> kids]

\* Node.child_list: the values of the children dict
child_list(n) == [i \in 1 .. Len(n.children) |-> n.children[i].node]

RECURSIVE to_dict(_)
to_dict(n) ==
    [n EXCEPT !.children = [i \in 1 .. Len(child_list(n)) |-> to_dict(child_list(n)[i])]]

\* slip: the children are kept as a list of pairs, a repeated key is appended
DictPut_append(kids, k, v) == Append(kids, [key |-> k, node |-> v])

\* n.children[k] = v
DictPut(kids, k, v) ==
    IF \E i \in 1 .. Len(kids) : kids[i].key = k
    THEN [i \in 1 .. Len(kids) |->
             IF kids[i].key = k THEN [key |-> k, node |-> v] ELSE kids[i]]
    ELSE Append(kids, [key |-> k, node |-> v])

\* the exception a call ended with, in place of the value it would return
Exc(e) == [exc |-> e]

IsExc(x) == "exc" \in DOMAIN x

\* slip: a counter is read with d["total_size"]
RequiredKeys_withCounter == {"path", "name", "total_size"}

\* the keys from_dict reads with d[...]: a missing one is a KeyError
RequiredKeys == {"path", "name"}

\* d.get(k, default)
get(d, k, default) == IF k \in DOMAIN d THEN d[k] ELSE default

\* slip: the children are registered under their path
RECURSIVE from_dict_keyByPath(_)
RECURSIVE AddChildren_keyByPath(_, _)
AddChildren_keyByPath(kids, cds) ==
    IF cds = <<>> THEN [exc |-> "none", kids |-> kids]
    ELSE LET c == from_dict_keyByPath(Head(cds))
         IN  IF IsExc(c) THEN [exc |-> c.exc, kids |-> kids]
             ELSE AddChildren_keyByPath(DictPut(kids, c.path, c), Tail(cds))

from_dict_keyByPath(d) ==
    IF RequiredKeys \ DOMAIN d # {} THEN Exc("KeyError")
    ELSE LET a == AddChildren_keyByPath(<<>>, get(d, "children", <<>>))
         IN  IF a.exc # "none" THEN Exc(a.exc)
             ELSE [path |-> d.path, name |-> d.name,
                   immediate_files |-> get(d, "immediate_files", 0),
                   immediate_dirs |-> get(d, "immediate_dirs", 0),
                   immediate_size |-> get(d, "immediate_size", 0),
                   total_files |-> get(d, "total_files", 0),
                   total_dirs |-> get(d, "total_dirs", 0),
                   total_size |-> get(d, "total_size", 0),
                   children |-> a.kids]

RECURSIVE from_dict(_)
\* slip: a child that cannot be built is left out and the loop goes on
RECURSIVE AddChildren_skipBad(_, _)
AddChildren_skipBad(kids, cds) ==
    IF cds = <<>> THEN [exc |-> "none", kids |-> kids]
    ELSE LET c == from_dict(Head(cds))
         IN  IF IsExc(c) THEN AddChildren_skipBad(kids, Tail(cds))
             ELSE AddChildren_skipBad(DictPut(kids, c.name, c), Tail(cds))

RECURSIVE AddChildren(_, _)
\* for cd in d.get("children", []): c = from_dict(cd); n.children[c.name] = c
\* an exception of from_dict(cd) ends the loop and leaves from_dict
AddChildren(kids, cds) ==
    IF cds = <<>> THEN [exc |-> "none", kids |-> kids]
    ELSE LET c == from_dict(Head(cds))
         IN  IF IsExc(c) THEN [exc |-> c.exc, kids |-> kids]
             ELSE AddChildren(DictPut(kids, c.name, c), Tail(cds))

from_dict(d) ==
    IF RequiredKeys \ DOMAIN d # {} THEN Exc("KeyError")
    ELSE LET a == AddChildren(<<>>, get(d, "children", <<>>))
         IN  IF a.exc # "none" THEN Exc(a.exc)
             ELSE [path |-> d.path, name |-> d.name,
                   immediate_files |-> get(d, "immediate_files", 0),
                   immediate_dirs |-> get(d, "immediate_dirs", 0),
                   immediate_size |-> get(d, "immediate_size", 0),
                   total_files |-> get(d, "total_files", 0),
                   total_dirs |-> get(d, "total_dirs", 0),
                   total_size |-> get(d, "total_size", 0),
                   children |-> a.kids]

\* a token of the JSON text: a bracket, an object key or a scalar value
Tok(t, v) == [t |-> t, v |-> v]

\* the order in which to_dict inserts its keys; "comment" is a key Node
\* does not know
KeyOrder ==
    <<"path", "name", "immediate_files", "immediate_dirs", "immediate_size",
      "total_files", "total_dirs", "total_size", "children", "comment">>

\* json.dumps: the tokens of the document
RECURSIVE dumps(_)
RECURSIVE dumps_list(_)
RECURSIVE dumps_members(_, _)
dumps_list(ds) ==
    IF ds = <<>> THEN <<>> ELSE dumps(Head(ds)) \o dumps_list(Tail(ds))

dumps_members(d, ks) ==
    IF ks = <<>> THEN <<>>
    ELSE LET k == Head(ks)
             member ==
                 IF k \notin DOMAIN d THEN <<>>
                 ELSE IF k = "children"
                      THEN <<Tok("key", k), Tok("[", 0)>>
                               \o dumps_list(d[k]) \o <<Tok("]", 0)>>
                      ELSE <<Tok("key", k), Tok("val", d[k])>>
         IN  member \o dumps_members(d, Tail(ks))

dumps(d) == <<Tok("{", 0)>> \o dumps_members(d, KeyOrder) \o <<Tok("}", 0)>>

\* json.loads: the value that starts at token i and the index after it;
\* a text that ends early or has a token out of place is not decoded
NotDecoded == [ok |-> FALSE, value |-> <<>>, next |-> 0]

Decoded(v, i) == [ok |-> TRUE, value |-> v, next |-> i]

RECURSIVE loads_at(_, _)
RECURSIVE loads_list(_, _)
RECURSIVE loads_members(_, _, _)
loads_list(toks, i) ==
    IF i > Len(toks) THEN NotDecoded
    ELSE IF toks[i].t = "]" THEN Decoded(<<>>, i + 1)
    ELSE LET h == loads_at(toks, i)
         IN  IF ~h.ok THEN NotDecoded
             ELSE LET t == loads_list(toks, h.next)
                  IN  IF ~t.ok THEN NotDecoded
                      ELSE Decoded(<<h.value>> \o t.value, t.next)

loads_members(toks, i, d) ==
    IF i > Len(toks) THEN NotDecoded
    ELSE IF toks[i].t = "}" THEN Decoded(d, i + 1)
    ELSE IF toks[i].t # "key" THEN NotDecoded
    ELSE LET v == loads_at(toks, i + 1)
         IN  IF ~v.ok THEN NotDecoded
             ELSE loads_members(toks, v.next,
                      [k \in DOMAIN d \cup {toks[i].v} |->
                          IF k = toks[i].v THEN v.value ELSE d[k]])

loads_at(toks, i) ==
    IF i > Len(toks) THEN NotDecoded
    ELSE IF toks[i].t = "{" THEN loads_members(toks, i + 1, <<>>)
    ELSE IF toks[i].t = "[" THEN loads_list(toks, i + 1)
    ELSE IF toks[i].t = "val" THEN Decoded(toks[i].v, i + 1)
    ELSE NotDecoded

loads(toks) ==
    LET r == loads_at(toks, 1)
    IN  IF r.ok /\ r.next = Len(toks) + 1 THEN r.value
        ELSE Exc("JSONDecodeError")

to_json(n) == dumps(to_dict(n))

from_json(t) ==
    LET d == loads(t)
    IN  IF IsExc(d) THEN d ELSE from_dict(d)

\* dataclass equality: all fields equal, the children dicts equal as mappings
RECURSIVE NodeEq(_, _)
NodeEq(a, b) ==
    /\ a.path = b.path
    /\ a.name = b.name
    /\ a.immediate_files = b.immediate_files
    /\ a.immediate_dirs = b.immediate_dirs
    /\ a.immediate_size = b.immediate_size
    /\ a.total_files = b.total_files
    /\ a.total_dirs = b.total_dirs
    /\ a.total_size = b.total_size
    /\ Len(a.children) = Len(b.children)
    /\ \A i \in 1 .. Len(a.children) :
          \E j \in 1 .. Len(b.children) :
              /\ a.children[i].key = b.children[j].key
              /\ NodeEq(a.children[i].node, b.children[j].node)

\* the Node trees handed to to_json: every child is stored under its name
JNames == {"a", "b"}
JCounters == {<<0, 0, 0, 0, 0, 0>>, <<1, 1, 50, 2, 2, 75>>}

\* the children dicts over the given nodes: distinct keys, any insertion order
Dicts(N) ==
    {<<>>}
        \cup {<<[key |-> n.name, node |-> n]>> : n \in N}
        \cup {d \in {<<[key |-> n.name, node |-> n], [key |-> m.name, node |-> m]>> :
                         n \in N, m \in N} : d[1].key # d[2].key}

LeafNodes(pp) == {MkNode(pp \o <<n>>, n, c, <<>>) : n \in JNames, c \in JCounters}

InnerNodes(pp) ==
    UNION {{MkNode(pp \o <<n>>, n, c, kids) : kids \in Dicts(LeafNodes(pp \o <<n>>))} :
              n \in JNames, c \in JCounters}

DocTrees ==
    {MkNode(<<"r">>, "r", c, kids) : c \in JCounters, kids \in Dicts(InnerNodes(<<"r">>))}

InitJson ==
    /\ attr = [e \in EntryIds |-> "dir"]
    /\ layout = "tree"
    /\ workers = DEFAULT_WORKERS
    /\ stop = FALSE
    /\ nodes = [p \in {<<>>} |-> NewNode]
    /\ stack = <<[path |-> <<>>, expanded |-> FALSE]>>
    /\ pc = "loop"
    /\ cur = [path |-> <<>>, res |-> ZeroResult]
    /\ futs = <<>>
    /\ raised = FALSE
    /\ probes = <<>>
    /\ calls = <<>>
    /\ run = 1
    /\ first = <<>>
    /\ doc \in DocTrees
    /\ text = <<>>
    /\ back = <<>>
    /\ jpc = "new"
    /\ arg = <<>>
    /\ ret = <<>>
    /\ upc = "idle"
    /\ AppIdle

\* cmd_save_json: the snapshot is written with to_json
Save ==
    /\ jpc = "new"
    /\ text' = to_json(doc)
    /\ jpc' = "saved"
    /\ UNCHANGED <<scanVars, run, first, doc, back, utilVars, appVars>>

\* cmd_load_json: the snapshot is read with from_json
Load ==
    /\ jpc = "saved"
    /\ LET r == from_json(text)
       IN  IF IsExc(r)
           THEN /\ back' = back
                /\ jpc' = "failed"
           ELSE /\ back' = r
                /\ jpc' = "loaded"
    /\ UNCHANGED <<scanVars, run, first, doc, text, utilVars, appVars>>

NextJson == Save \/ Load

SpecJson == InitJson /\ [][NextJson]_vars

(***************************************************************************)
(* Snapshot files that were not written by to_json: any JSON object, with  *)
(* keys missing or added at any level, or a text that ends early           *)
(***************************************************************************)
CounterKeys ==
    {"immediate_files", "immediate_dirs", "immediate_size",
     "total_files", "total_dirs", "total_size"}

NodeKeys == {"path", "name"} \cup CounterKeys \cup {"children"}

\* a value for each counter that differs from the default
SampleValue(k) ==
    CASE k = "immediate_files" -> 1
      [] k = "immediate_dirs" -> 2
      [] k = "immediate_size" -> 50
      [] k = "total_files" -> 3
      [] k = "total_dirs" -> 4
      [] k = "total_size" -> 75

\* the JSON object with the given keys
MkDoc(keys, path, name, kids) ==
    [k \in keys |->
        CASE k = "path" -> path
          [] k = "name" -> name
          [] k = "children" -> kids
          [] k = "comment" -> "x"
          [] OTHER -> SampleValue(k)]

GrandDocs(pp) ==
    {MkDoc(ks, pp \o <<"g">>, "g", <<>>) :
        ks \in {NodeKeys \ {"children"}, {"path", "name"}, {"path"},
                {"path", "name", "comment", "immediate_size"}}}

ChildDocs(pp, n) ==
    {MkDoc(ks, pp \o <<n>>, n, <<>>) :
        ks \in {{"path", "name"}, {"path", "name", "total_files", "comment"}}}
    \cup
    {MkDoc(ks, pp \o <<n>>, n, kids) :
        ks \in {NodeKeys, NodeKeys \ {"name"}, NodeKeys \ {"path"}},
        kids \in {<<>>} \cup {<<g>> : g \in GrandDocs(pp \o <<n>>)}}

ChildLists(pp) ==
    {<<c>> : c \in ChildDocs(pp, "a") \cup ChildDocs(pp, "b")}
    \cup {<<c, d>> : c \in ChildDocs(pp, "a"), d \in ChildDocs(pp, "b")}

\* keys missing or added at the root
FlatDocs ==
    {MkDoc({"path", "name"} \cup F \cup X \cup K, <<"r">>, "r", <<>>) :
        F \in SUBSET CounterKeys, X \in {{}, {"comment"}}, K \in {{}, {"children"}}}

\* keys missing or added below the root
DeepDocs ==
    {MkDoc(ks, <<"r">>, "r", kids) :
        ks \in {NodeKeys, NodeKeys \ {"path"}},
        kids \in ChildLists(<<"r">>)}

LoadDocs == FlatDocs \cup DeepDocs

\* the file holds the whole text of the document or only a part of it
InitLoad ==
    /\ attr = [e \in EntryIds |-> "dir"]
    /\ layout = "tree"
    /\ workers = DEFAULT_WORKERS
    /\ stop = FALSE
    /\ nodes = [p \in {<<>>} |-> NewNode]
    /\ stack = <<[path |-> <<>>, expanded |-> FALSE]>>
    /\ pc = "loop"
    /\ cur = [path |-> <<>>, res |-> ZeroResult]
    /\ futs = <<>>
    /\ raised = FALSE
    /\ probes = <<>>
    /\ calls = <<>>
    /\ run = 1
    /\ first = <<>>
    /\ doc \in LoadDocs
    /\ \E k \in 0 .. Len(dumps(doc)) : text = SubSeq(dumps(doc), 1, k)
    /\ back = <<>>
    /\ jpc = "saved"
    /\ arg = <<>>
    /\ ret = <<>>
    /\ upc = "idle"
    /\ AppIdle

NextLoad == Load

SpecLoad == InitLoad /\ [][NextLoad]_vars

(***************************************************************************)
(* A snapshot file is loaded while a directory is scanned; the snapshot    *)
(* may hold two entries of one name in a children list                     *)
(***************************************************************************)
SnapLeaves(pp) ==
    {MkDoc({"path", "name"}, pp \o <<"a">>, "a", <<>>),
     MkDoc({"path", "name", "total_files"}, pp \o <<"a">>, "a", <<>>),
     MkDoc({"path", "name"}, pp \o <<"b">>, "b", <<>>)}

SnapInner(pp) ==
    {MkDoc(NodeKeys, pp \o <<"a">>, "a", <<c, d>>) :
        c \in SnapLeaves(pp \o <<"a">>), d \in SnapLeaves(pp \o <<"a">>)}

SnapLists(C) == {<<>>} \cup {<<c>> : c \in C} \cup {<<c, d>> : c \in C, d \in C}

SnapDocs ==
    {MkDoc(NodeKeys, <<"r">>, "r", kids) :
        kids \in SnapLists(SnapLeaves(<<"r">>)) \cup {<<c>> : c \in SnapInner(<<"r">>)}}

InitSnap ==
    /\ ScanInit
    /\ layout = "tree"
    /\ attr = [e \in EntryIds |-> "dir"]
    /\ workers = NWorkers
    /\ run = 1
    /\ first = <<>>
    /\ doc \in SnapDocs
    /\ text = dumps(doc)
    /\ back = <<>>
    /\ jpc = "saved"
    /\ arg = <<>>
    /\ ret = <<>>
    /\ upc = "idle"
    /\ AppIdle

NextSnap == Next \/ Load

SpecSnap == InitSnap /\ [][NextSnap]_vars

(***************************************************************************)
(* winutils: is_hidden_or_system_dir and to_long_path, both variants.      *)
(* A path string is the sequence of its characters.                        *)
(***************************************************************************)
\* s.startswith(pre)
startswith(s, pre) == Len(s) >= Len(pre) /\ SubSeq(s, 1, Len(pre)) = pre

\* slip: the trailing separators are left on the path
rstrip_nothing(s, chars) == s

\* s.rstrip(chars)
RECURSIVE rstrip(_, _)
rstrip(s, chars) ==
    IF s # <<>> /\ s[Len(s)] \in chars
    THEN rstrip(SubSeq(s, 1, Len(s) - 1), chars)
    ELSE s

\* the part of s after its last character in seps, s itself if there is none
TailAfter(s, seps) ==
    LET I == {i \in 1 .. Len(s) : s[i] \in seps}
    IN  IF I = {} THEN s
        ELSE SubSeq(s, (CHOOSE i \in I : \A j \in I : j <= i) + 1, Len(s))

\* posixpath.basename
basename_posix(s) == TailAfter(s, {"/"})

\* ntpath.basename: the drive letter is split off first
basename_nt(s) ==
    TailAfter(IF Len(s) >= 2 /\ s[2] = ":" THEN SubSeq(s, 3, Len(s)) ELSE s,
              {"\\", "/"})

\* a DWORD of file attributes is the set of its bits that are 1
FILE_ATTRIBUTE_HIDDEN == {1}
FILE_ATTRIBUTE_SYSTEM == {2}
FILE_ATTRIBUTE_DIRECTORY == {4}
INVALID_FILE_ATTRIBUTES == 0 .. 31

\* what GetFileAttributesW(path) does: it returns a DWORD or the call raises
Lookups ==
    {[exc |-> "none", attrs |-> a] :
        a \in {INVALID_FILE_ATTRIBUTES} \cup
              {h \cup y \cup d : h \in {{}, FILE_ATTRIBUTE_HIDDEN},
                                 y \in {{}, FILE_ATTRIBUTE_SYSTEM},
                                 d \in {{}, FILE_ATTRIBUTE_DIRECTORY}}}
    \cup {[exc |-> "ArgumentError", attrs |-> {}]}

\* is_hidden_or_system_dir of the Windows variant
is_hidden_or_system_dir_windows(path, lookup) ==
    IF lookup.exc # "none" THEN FALSE
    ELSE IF lookup.attrs = INVALID_FILE_ATTRIBUTES THEN FALSE
    ELSE IF lookup.attrs \cap (FILE_ATTRIBUTE_HIDDEN \cup FILE_ATTRIBUTE_SYSTEM) # {}
         THEN TRUE
    ELSE startswith(basename_nt(rstrip(path, {"\\", "/"})), <<".">>)

\* is_hidden_or_system_dir of the macOS/Linux variant
is_hidden_or_system_dir_fallback(path) ==
    startswith(basename_posix(rstrip(path, {"/"})), <<".">>)

\* the directories is_hidden_or_system_dir is asked about: the path of the
\* parent, the name of the directory, the separators written after it
DirNames == {<<"a">>, <<".", "g">>, <<"a", ".", "b">>}

HiddenArgs ==
    {[platform |-> "nt", parent |-> pa, name |-> n, trail |-> t, lookup |-> l] :
        pa \in {<<>>, <<"C", ":", "\\">>, <<"C", ":">>, <<"a", "\\">>,
                <<".", "h", "/">>, <<"\\">>},
        n \in DirNames,
        t \in {<<>>, <<"\\">>, <<"/">>, <<"\\", "/">>},
        l \in Lookups}
    \cup
    {[platform |-> "posix", parent |-> pa, name |-> n, trail |-> t,
      lookup |-> [exc |-> "none", attrs |-> {}]] :
        pa \in {<<>>, <<"/">>, <<"a", "/">>, <<".", "h", "/">>},
        n \in DirNames,
        t \in {<<>>, <<"/">>, <<"/", "/">>}}

\* no scan and no snapshot is in progress
ScanIdle ==
    /\ attr = [e \in EntryIds |-> "dir"]
    /\ layout = "tree"
    /\ workers = DEFAULT_WORKERS
    /\ stop = FALSE
    /\ nodes = [p \in {<<>>} |-> NewNode]
    /\ stack = <<[path |-> <<>>, expanded |-> FALSE]>>
    /\ pc = "loop"
    /\ cur = [path |-> <<>>, res |-> ZeroResult]
    /\ futs = <<>>
    /\ raised = FALSE
    /\ probes = <<>>
    /\ calls = <<>>
    /\ run = 1
    /\ first = <<>>
    /\ doc = <<>>
    /\ text = <<>>
    /\ back = <<>>
    /\ jpc = "idle"
    /\ AppIdle

\* is_hidden_or_system_dir(path) is called and returns
CallHidden ==
    /\ upc = "is_hidden_or_system_dir"
    /\ ret' = [exc |-> "none",
               value |-> IF arg.platform = "nt"
                         THEN is_hidden_or_system_dir_windows(
                                  arg.parent \o arg.name \o arg.trail, arg.lookup)
                         ELSE is_hidden_or_system_dir_fallback(
                                  arg.parent \o arg.name \o arg.trail)]
    /\ upc' = "returned"
    /\ UNCHANGED <<scanVars, run, first, doc, text, back, jpc, arg, appVars>>

\* s.split(sep): the components between the separators
RECURSIVE Split(_, _)
Split(s, seps) ==
    LET I == {i \in 1 .. Len(s) : s[i] \in seps}
    IN  IF I = {} THEN <<s>>
        ELSE LET i == CHOOSE x \in I : \A y \in I : x <= y
             IN  <<SubSeq(s, 1, i - 1)>> \o Split(SubSeq(s, i + 1, Len(s)), seps)

\* sep.join(comps)
RECURSIVE Join(_, _)
Join(comps, sep) ==
    IF comps = <<>> THEN <<>>
    ELSE IF Len(comps) = 1 THEN comps[1]
    ELSE comps[1] \o sep \o Join(Tail(comps), sep)

\* s.replace(old, new) for single characters
Replace(s, old, new) == [i \in 1 .. Len(s) |-> IF s[i] = old THEN new ELSE s[i]]

\* the component loop of normpath: empty components and "." are dropped,
\* ".." removes the component before it, or is dropped at the root
RECURSIVE NormComps(_, _, _)
NormComps(comps, acc, rooted) ==
    IF comps = <<>> THEN acc
    ELSE LET c == Head(comps)
             next ==
                 IF c = <<>> \/ c = <<".">> THEN acc
                 ELSE IF \/ c # <<".", ".">>
                         \/ (~rooted /\ acc = <<>>)
                         \/ (acc # <<>> /\ acc[Len(acc)] = <<".", ".">>)
                      THEN Append(acc, c)
                 ELSE IF acc # <<>> THEN SubSeq(acc, 1, Len(acc) - 1)
                 ELSE acc
         IN  NormComps(Tail(comps), next, rooted)

\* posixpath.normpath
normpath_posix(path) ==
    IF path = <<>> THEN <<".">>
    ELSE LET slashes ==
                 IF startswith(path, <<"/", "/">>) /\ ~startswith(path, <<"/", "/", "/">>)
                 THEN <<"/", "/">>
                 ELSE IF startswith(path, <<"/">>) THEN <<"/">> ELSE <<>>
             r == slashes \o Join(NormComps(Split(path, {"/"}), <<>>, slashes # <<>>),
                                  <<"/">>)
         IN  IF r = <<>> THEN <<".">> ELSE r

\* posixpath.join(a, b)
join_posix(a, b) ==
    IF startswith(b, <<"/">>) THEN b
    ELSE IF a = <<>> \/ a[Len(a)] = "/" THEN a \o b
    ELSE a \o <<"/">> \o b

\* posixpath.abspath with the working directory cwd
abspath_posix(path, cwd) ==
    normpath_posix(IF startswith(path, <<"/">>) THEN path ELSE join_posix(cwd, path))

\* the extended-length prefix "\\?\" and the UNC marker
ExtPrefix == <<"\\", "\\", "?", "\\">>
UncPrefix == <<"\\", "\\">>
ExtUncPrefix == ExtPrefix \o <<"U", "N", "C", "\\">>

\* a path under a prefix whose first nd components are the drive or the
\* server and share: they are kept, the rest is normalised below them
UnderDrive(prefix, rest, nd) ==
    LET comps == Split(rest, {"\\"})
        n     == IF Len(comps) < nd THEN Len(comps) ELSE nd
    IN  prefix \o Join(SubSeq(comps, 1, n), <<"\\">>)
            \o (IF Len(comps) > nd THEN <<"\\">> ELSE <<>>)
            \o Join(NormComps(SubSeq(comps, n + 1, Len(comps)), <<>>, TRUE), <<"\\">>)

\* ntpath.abspath (normpath, then GetFullPathNameW) with the working
\* directory C:\ followed by the components cwd
abspath_nt(path, cwd) ==
    LET p == Replace(path, "/", "\\")
    IN  IF startswith(p, ExtPrefix)
        THEN LET rest == SubSeq(p, 5, Len(p))
             IN  UnderDrive(ExtPrefix, rest,
                            IF startswith(rest, <<"U", "N", "C", "\\">>) THEN 3 ELSE 1)
        ELSE IF startswith(p, UncPrefix)
        THEN UnderDrive(UncPrefix, SubSeq(p, 3, Len(p)), 2)
        ELSE IF Len(p) >= 2 /\ p[2] = ":"
        THEN LET rest == SubSeq(p, 3, Len(p))
                 from == IF startswith(rest, <<"\\">>) THEN rest
                         ELSE cwd \o <<"\\">> \o rest
             IN  SubSeq(p, 1, 2) \o <<"\\">>
                     \o Join(NormComps(Split(from, {"\\"}), <<>>, TRUE), <<"\\">>)
        ELSE LET from == IF startswith(p, <<"\\">>) THEN p ELSE cwd \o <<"\\">> \o p
             IN  <<"C", ":", "\\">>
                     \o Join(NormComps(Split(from, {"\\"}), <<>>, TRUE), <<"\\">>)

\* slip: the test for a path that already has the prefix is missing
to_long_path_windows_noPrefixTest(path, cwd) ==
    IF path = <<>> THEN path
    ELSE LET p == abspath_nt(path, cwd)
         IN  IF startswith(p, UncPrefix)
             THEN ExtUncPrefix \o SubSeq(p, 3, Len(p))
             ELSE ExtPrefix \o p

\* to_long_path of the Windows variant
to_long_path_windows(path, cwd) ==
    IF path = <<>> THEN path
    ELSE LET p == abspath_nt(path, cwd)
         IN  IF startswith(p, ExtPrefix) THEN p
             ELSE IF startswith(p, UncPrefix)
             THEN ExtUncPrefix \o SubSeq(p, 3, Len(p))
             ELSE ExtPrefix \o p

\* to_long_path of the macOS/Linux variant: os.path.abspath(path or "")
to_long_path_fallback(path, cwd) == abspath_posix(path, cwd)

\* the paths to_long_path is called with: a root part and a relative part
LongArgs ==
    {[platform |-> "nt", path |-> r \o b, cwd |-> c] :
        r \in {<<>>, <<"C", ":", "\\">>, <<"C", ":">>, <<"\\">>, <<"/">>,
               <<"\\", "\\", "s", "\\", "h", "\\">>, <<"/", "/", "s", "/", "h", "/">>,
               ExtPrefix \o <<"C", ":", "\\">>,
               ExtUncPrefix \o <<"s", "\\", "h", "\\">>},
        b \in {<<>>, <<"a">>, <<"a", "\\", "b">>, <<"a", "\\", ".", ".", "\\", "b">>,
               <<".", "\\", "a">>, <<"a", "\\">>, <<"a", "/", "b">>, <<".", ".">>,
               <<".", ".", "\\", "a">>},
        c \in {<<>>, <<"w">>}}
    \cup
    {[platform |-> "posix", path |-> r \o b, cwd |-> c] :
        r \in {<<>>, <<"/">>, <<"/", "/">>, <<"/", "/", "/">>},
        b \in {<<>>, <<"a">>, <<"a", "/", "b">>, <<"a", "/", ".", ".", "/", "b">>,
               <<".", "/", "a">>, <<"a", "/">>, <<"a", "/", "/", "b">>, <<".", ".">>,
               <<".", ".", "/", "a">>},
        c \in {<<"/">>, <<"/", "w">>}}

to_long_path(a, path) ==
    IF a.platform = "nt" THEN to_long_path_windows(path, a.cwd)
    ELSE to_long_path_fallback(path, a.cwd)

\* to_long_path(path) is called, and called again with what it returned
CallLongPath ==
    /\ upc = "to_long_path"
    /\ ret' = [once |-> to_long_path(arg, arg.path),
               twice |-> to_long_path(arg, to_long_path(arg, arg.path))]
    /\ upc' = "returned"
    /\ UNCHANGED <<scanVars, run, first, doc, text, back, jpc, arg, appVars>>

InitUtil ==
    /\ ScanIdle
    /\ ret = <<>>
    /\ \/ upc = "is_hidden_or_system_dir" /\ arg \in HiddenArgs
       \/ upc = "to_long_path" /\ arg \in LongArgs

NextUtil == CallHidden \/ CallLongPath

SpecUtil == InitUtil /\ [][NextUtil]_vars

(***************************************************************************)
(* Properties of the returned tree                                         *)
(***************************************************************************)
\* the paths of the Nodes stored in the children mapping of the Node at p
ChildPaths(p) == {p \o <<nodes[p].children[i]>> : i \in 1 .. Len(nodes[p].children)}

RECURSIVE TotalOver(_, _)
TotalOver(S, field) ==
    IF S = {} THEN 0
    ELSE LET q == CHOOSE x \in S : TRUE
         IN  nodes[q][field] + TotalOver(S \ {q}, field)

Returned == pc = "done" /\ ~raised

CountFormulas(p) ==
    LET n == nodes[p]
        C == ChildPaths(p)
    IN  /\ n.total_files = n.immediate_files + TotalOver(C, "total_files")
        /\ n.total_size = n.immediate_size + TotalOver(C, "total_size")
        /\ n.total_dirs = n.immediate_dirs + Cardinality(C) + TotalOver(C, "total_dirs")
        /\ C = {} => /\ n.total_files = n.immediate_files
                     /\ n.total_size = n.immediate_size
                     /\ n.total_dirs = n.immediate_dirs

\* C1: when scan_tree returns and cancellation was never signalled, every
\* node of the returned tree has total_files = immediate_files + sum of the
\* children's total_files, total_size = immediate_size + sum of the
\* children's total_size and total_dirs = immediate_dirs + sum over the
\* children of (1 + total_dirs); a node without children has each total
\* equal to its immediate counter.
C1_AggregationFormulas ==
    (Returned /\ ~stop) => \A p \in DOMAIN nodes : CountFormulas(p)

C1_Witness ==
    /\ Returned /\ ~stop
    /\ <<1, 3>> \in DOMAIN nodes
    /\ <<2>> \in DOMAIN nodes
    /\ nodes[<<>>].total_size = 185
    /\ nodes[<<1>>].total_files = 2

\* the directory nodes strictly beneath p
Descendants(p) ==
    {q \in DOMAIN nodes : Len(q) > Len(p) /\ SubSeq(q, 1, Len(p)) = p}

\* C2: after a scan that was not cancelled, total_dirs of the root, and of
\* any node, equals the number of directory nodes strictly beneath it, each
\* counted exactly once.
C2_TotalDirsCountsDescendantsOnce ==
    (Returned /\ ~stop) =>
        \A p \in DOMAIN nodes : nodes[p].total_dirs = Cardinality(Descendants(p))

\* C3: when cancellation is signalled during the walk, the aggregation step
\* still runs for every node that was probed and re-pushed, so the returned
\* partial tree satisfies the count formulas at every node.
C3_CancelledTreeIsAggregated ==
    (Returned /\ stop) => \A p \in DOMAIN nodes : CountFormulas(p)

\* the six counters of every node of a tree
Counters(ns) ==
    [p \in DOMAIN ns |->
        <<ns[p].immediate_files, ns[p].immediate_dirs, ns[p].immediate_size,
          ns[p].total_files, ns[p].total_dirs, ns[p].total_size>>]

\* C4: for the same unchanged directory tree and no cancellation, the scan
\* with workers = 1 and the scan with workers = N > 1 return the same set
\* of nodes with identical immediate and total counters at every node.
C4_SameTreeForAnyWorkerCount ==
    (run = 2 /\ Returned /\ ~stop) => Counters(nodes) = Counters(first)

C4_Witness ==
    /\ run = 2 /\ Returned /\ ~stop
    /\ workers > 1
    /\ <<1, 3>> \in DOMAIN nodes
    /\ <<1, 4>> \in DOMAIN nodes
    /\ nodes[<<>>].total_files = 5
    /\ probes[<<1, 3>>] = 2

IsBelow(p, q) == Len(q) > Len(p) /\ SubSeq(q, 1, Len(p)) = p

\* the aggregate entry of a node lies below every entry of a descendant
AggregateEntryBelowDescendants ==
    \A i, j \in 1 .. Len(stack) :
        (stack[i].expanded /\ IsBelow(stack[i].path, stack[j].path)) => i < j

\* a step that aggregates a node finds every child in its children mapping
\* probed and aggregated
AggregatesAfterChildren ==
    \A p \in DOMAIN nodes :
        (/\ p \in DOMAIN nodes'
         /\ nodes[p].phase # "Aggregated"
         /\ nodes'[p].phase = "Aggregated")
        => /\ nodes[p].phase = "Probed"
           /\ \A c \in ChildPaths(p) :
                 /\ nodes[c].phase = "Aggregated"
                 /\ c \in DOMAIN probes

\* C5: in every execution (sequential or parallel) a node's aggregation
\* step runs only after each child present in its children mapping has been
\* probed and has itself been aggregated, and the aggregate entry of a node
\* is always below all entries of its descendants on the stack.
C5_ChildrenBeforeParent ==
    []AggregateEntryBelowDescendants /\ [][AggregatesAfterChildren]_vars

C5_Witness ==
    /\ workers > 1
    /\ nodes[<<>>].phase = "Aggregated"
    /\ Len(nodes[<<>>].children) = 2
    /\ <<1, 4>> \in DOMAIN nodes

(***************************************************************************)
(* The directory tree as the filesystem holds it                           *)
(***************************************************************************)
DirEntriesOf(d) ==
    {Listing(d)[i].id : i \in {j \in 1 .. Len(Listing(d)) : Listing(d)[j].t = "dir"}}

FileIndexesOf(d) == {j \in 1 .. Len(Listing(d)) : Listing(d)[j].t = "file"}

RECURSIVE SizeOfFiles(_, _)
SizeOfFiles(d, J) ==
    IF J = {} THEN 0
    ELSE LET j == CHOOSE x \in J : TRUE
         IN  (IF Listing(d)[j].stat = "none" THEN Listing(d)[j].size ELSE 0)
                 + SizeOfFiles(d, J \ {j})

\* scandir succeeds on the directory
Openable(e) == attr[e] \notin {"eperm", "eio"}

\* a real directory that is not excluded
Visible(e) == attr[e] \in {"dir", "eperm", "eio"}

ParentOf(p) == SubSeq(p, 1, Len(p) - 1)

\* the paths of all directory entries of the filesystem
RECURSIVE PathsFrom(_, _)
PathsFrom(p, depth) ==
    {p} \cup (IF depth = 0 THEN {}
              ELSE UNION {PathsFrom(p \o <<e>>, depth - 1) : e \in DirEntriesOf(Ent(p))})

TreePaths == PathsFrom(<<>>, MaxDepth)

\* the root and every non-excluded directory that can be reached from it
\* through listable directories without following a symlink
ReachablePaths ==
    {p \in TreePaths :
        \A i \in 1 .. Len(p) :
            /\ Visible(p[i])
            /\ Openable(IF i = 1 THEN 0 ELSE p[i - 1])}

Touched ==
    DOMAIN nodes \cup DOMAIN probes \cup DOMAIN futs \cup {cur.path}
        \cup {stack[i].path : i \in 1 .. Len(stack)}
        \cup Range(cur.res.child_dirs)
        \cup UNION {Range(futs[c].res.child_dirs) : c \in DOMAIN futs}

\* the directories of the filesystem at or beneath p that do not lie in or
\* beneath a hidden directory entry
UnhiddenUnder(p) ==
    {q \in TreePaths :
        /\ q = p \/ IsBelow(p, q)
        /\ \A i \in 1 .. Len(q) : i > Len(p) => attr[q[i]] # "hidden"}

RECURSIVE FilesIn(_)
FilesIn(Q) ==
    IF Q = {} THEN 0
    ELSE LET q == CHOOSE x \in Q : TRUE
         IN  Cardinality(FileIndexesOf(Ent(q))) + FilesIn(Q \ {q})

RECURSIVE BytesIn(_)
BytesIn(Q) ==
    IF Q = {} THEN 0
    ELSE LET q == CHOOSE x \in Q : TRUE
         IN  SizeOfFiles(Ent(q), FileIndexesOf(Ent(q))) + BytesIn(Q \ {q})

\* C7 as stated: a directory for which is_hidden_or_system_dir returns true
\* is never given a Node and is never probed.
C7_HiddenDirNeverScanned ==
    \A p \in Touched : attr[Ent(p)] # "hidden"

\* C7 (amended): a directory other than the scan root for which
\* is_hidden_or_system_dir returns true is never given a Node, is not
\* counted in its parent's immediate_dirs, is never probed, and no file
\* beneath it contributes to the totals of any node.
C7_HiddenDirBelowRootNeverScanned ==
    /\ \A p \in Touched : \A i \in 1 .. Len(p) : attr[p[i]] # "hidden"
    /\ \A p \in DOMAIN nodes :
          /\ nodes[p].immediate_dirs
                <= Cardinality({e \in DirEntriesOf(Ent(p)) : attr[e] # "hidden"})
          /\ nodes[p].total_files <= FilesIn(UnhiddenUnder(p))
          /\ nodes[p].total_size <= BytesIn(UnhiddenUnder(p))

C7_Witness ==
    /\ Returned /\ ~stop
    /\ attr[1] = "hidden"
    /\ attr[0] = "dir" /\ attr[2] = "dir"
    /\ nodes[<<>>].immediate_dirs = 1
    /\ nodes[<<>>].total_files = 3
    /\ nodes[<<>>].total_size = 110

\* C8: no filesystem error makes scan_tree fail: whatever directories
\* cannot be opened, scan_tree does not raise, each unopenable directory
\* appears as a node with all three immediate counters zero and no
\* children, and all of its sibling directories are still probed and
\* aggregated.
C8_UnopenableDirsAreEmptyNodes ==
    /\ ~raised
    /\ \A p \in DOMAIN nodes :
          ~Openable(Ent(p)) =>
              /\ nodes[p].immediate_files = 0
              /\ nodes[p].immediate_dirs = 0
              /\ nodes[p].immediate_size = 0
              /\ nodes[p].children = <<>>
    /\ (pc = "done" /\ ~stop) =>
          \A p \in ReachablePaths :
              ~Openable(Ent(p)) =>
                  /\ p \in DOMAIN nodes
                  /\ nodes[p].phase = "Aggregated"
                  /\ \A q \in ReachablePaths :
                        (q # <<>> /\ p # <<>> /\ ParentOf(q) = ParentOf(p)) =>
                            /\ q \in DOMAIN nodes
                            /\ q \in DOMAIN probes
                            /\ nodes[q].phase = "Aggregated"

C8_Witness ==
    /\ pc = "done" /\ ~stop /\ ~raised
    /\ attr[1] = "eio"
    /\ attr[2] = "dir"
    /\ DOMAIN nodes = {<<>>, <<1>>, <<2>>}
    /\ nodes[<<1>>].phase = "Aggregated"
    /\ nodes[<<1>>].total_dirs = 0
    /\ nodes[<<2>>].total_files = 2

\* C9: for any Node tree T, Node.from_json(T.to_json()) is structurally
\* equal to T: same path, name and counters, and the same child-name to
\* child mapping, compared recursively and independent of order.
C9_JsonRoundTrip ==
    /\ jpc # "failed"
    /\ jpc = "loaded" => NodeEq(back, doc)

C9_Witness ==
    /\ jpc = "loaded"
    /\ Len(doc.children) = 2
    /\ doc.children[1].key = "b"
    /\ Len(doc.children[1].node.children) = 2
    /\ doc.children[2].node.total_size = 75
    /\ Len(text) > 40

\* no symlinked directory is ever added as a child
NoLinkBecomesNode ==
    \A p \in Touched : \A i \in 1 .. Len(p) : attr[p[i]] # "link"

\* C10: on any finite directory tree, also one whose symlinks or junctions
\* form cycles, scan_tree terminates: the walk reaches its end, because
\* symlinked directories are never added as children.
C10_ScanTerminates ==
    <>(pc = "done") /\ []NoLinkBecomesNode

C10_Witness ==
    /\ pc = "done" /\ ~stop
    /\ attr[3] = "link" /\ attr[2] = "link"
    /\ stack = <<>>
    /\ DOMAIN nodes = {<<>>, <<1>>, <<1, 4>>}
    /\ nodes[<<>>].phase = "Aggregated"

\* the directories at or beneath a whose listing was started
ProbedUnder(a) == {q \in DOMAIN probes : q = a \/ IsBelow(a, q)}

\* C11: if cancellation is signalled before the probe of a subtree's top
\* directory begins, that subtree contributes zero to the totals of its
\* parent and of every ancestor in the returned tree: the totals of a node
\* hold no file, byte or directory of a subtree whose probe never began
\* (a directory can enter total_dirs twice, once through immediate_dirs and
\* once through the aggregation).
C11_UnprobedSubtreeContributesNothing ==
    Returned =>
        \A a \in DOMAIN nodes :
            /\ nodes[a].total_files <= FilesIn(ProbedUnder(a))
            /\ nodes[a].total_size <= BytesIn(ProbedUnder(a))
            /\ nodes[a].total_dirs <= 2 * Cardinality(ProbedUnder(a) \ {a})

C11_Witness ==
    /\ Returned /\ stop
    /\ layout = "tree"
    /\ <<1, 3>> \in DOMAIN nodes
    /\ <<1, 3>> \notin DOMAIN probes
    /\ <<1>> \in DOMAIN probes
    /\ <<1, 4>> \in DOMAIN nodes
    /\ nodes[<<1, 4>>].phase = "Aggregated"
    /\ nodes[<<1>>].total_dirs = 0
    /\ nodes[<<1>>].immediate_dirs = 2

\* the root as scan_tree constructed it, and nothing listed
NothingScanned ==
    /\ probes = <<>>
    /\ DOMAIN nodes = {<<>>}
    /\ nodes[<<>>].total_files = 0
    /\ nodes[<<>>].total_dirs = 0
    /\ nodes[<<>>].total_size = 0
    /\ nodes[<<>>].children = <<>>

\* C12: if the cancellation flag is already set when scan_tree is called,
\* the returned root has total_files = total_dirs = total_size = 0 and an
\* empty children mapping, and no directory is listed.
C12_CancelledBeforeStart ==
    stop => [](NothingScanned /\ ~raised)

C12_Witness ==
    /\ Returned /\ stop
    /\ NothingScanned
    /\ stack = <<[path |-> <<>>, expanded |-> FALSE]>>
    /\ layout = "tree"

\* Scenario B is the layout "chain": <<1>> is A, <<1, 2>> is A/B
ScenarioB == layout = "chain" /\ Returned /\ ~stop

\* C13: Scenario B: for a root whose only entry is subdirectory A holding
\* one 50-byte file and a subdirectory A/B holding one 25-byte file, an
\* uncancelled scan returns root total_files = 2, total_dirs = 2,
\* total_size = 75; node A with total_files = 1, total_dirs = 1,
\* total_size = 25, immediate_files = 0; node A/B with total_files = 1,
\* total_dirs = 0, total_size = 25.
C13_ScenarioBValues ==
    ScenarioB =>
        /\ DOMAIN nodes = {<<>>, <<1>>, <<1, 2>>}
        /\ nodes[<<>>].total_files = 2
        /\ nodes[<<>>].total_dirs = 2
        /\ nodes[<<>>].total_size = 75
        /\ nodes[<<1>>].total_files = 1
        /\ nodes[<<1>>].total_dirs = 1
        /\ nodes[<<1>>].total_size = 25
        /\ nodes[<<1>>].immediate_files = 0
        /\ nodes[<<1, 2>>].total_files = 1
        /\ nodes[<<1, 2>>].total_dirs = 0
        /\ nodes[<<1, 2>>].total_size = 25

\* a step of a pool thread: a submitted probe is taken up or returns
WorkerStep ==
    \E c \in DOMAIN futs :
        /\ futs[c].st \in {"queued", "running"}
        /\ c \in DOMAIN futs'
        /\ futs'[c].st # futs[c].st

\* the values a probe hands back are counts and child paths, no Node
PlainResult(r) ==
    /\ DOMAIN r = {"files", "dirs", "size_sum", "child_dirs", "exc"}
    /\ r.files \in Nat /\ r.dirs \in Nat /\ r.size_sum \in Nat
    /\ \A i \in 1 .. Len(r.child_dirs) : r.child_dirs[i] \in Seq(EntryIds)

\* C14: during a scan with workers > 1, worker threads only run the
\* single-directory probe and return plain values: every write to a Node's
\* counters or children mapping and every push or pop on the traversal stack
\* is performed by the one driving thread, so no two threads ever write the
\* same Node or the stack.
C14_OnlyDriverWritesTree ==
    [][/\ WorkerStep => (nodes' = nodes /\ stack' = stack /\ calls' = calls)
       /\ (nodes' # nodes \/ stack' # stack) =>
             \A c \in DOMAIN futs \cap DOMAIN futs' : futs'[c].res = futs[c].res
       /\ \A c \in DOMAIN futs' : PlainResult(futs'[c].res)]_vars

C14_Witness ==
    /\ pc = "pool" /\ workers > 1
    /\ \E c \in DOMAIN futs :
          /\ futs[c].st = "finished"
          /\ futs[c].res.files > 0
          /\ nodes[c].phase = "Pending"
          /\ nodes[c].immediate_files = 0

\* C15: at every moment of a scan with worker count W, at most W worker
\* probes execute concurrently, and all worker probes in flight at the same
\* moment are for immediate children of the single node currently being
\* expanded (never for children of two different nodes).
C15_BoundedProbesOfOneNode ==
    /\ Cardinality(Running) <= workers
    /\ \A c \in DOMAIN futs :
          /\ pc \in {"pool", "drain"}
          /\ c # <<>>
          /\ ParentOf(c) = cur.path
          /\ Name(c) \in Range(nodes[cur.path].children)
    /\ workers = 1 => futs = <<>>

\* every worker is busy with one of the three children of the root
C15_Witness ==
    /\ layout = "wide"
    /\ workers > 1
    /\ cur.path = <<>>
    /\ Cardinality(DOMAIN futs) = 3
    /\ Cardinality(Running) = workers
    /\ \A c \in DOMAIN futs : futs[c].st \in {"queued", "running"}

\* the arguments progress_cb gets for a node with its final values
FinalImmediates(p) ==
    <<nodes[p].immediate_files, nodes[p].immediate_dirs, nodes[p].immediate_size>>

\* a call is made by the driving thread for the node it has just probed
CallFollowsDriverProbe ==
    calls' # calls =>
        /\ pc \in {"expand", "pool", "drain"}
        /\ calls' = Called(cur.path, cur.res)
        /\ ~stop => (cur.path \in DOMAIN probes /\ nodes'[cur.path].phase = "Probed")

\* C16: in a scan that is not cancelled, for either worker mode, the
\* progress callback is invoked exactly once for every directory node of the
\* returned tree, after that node's probe on the driving thread, with the
\* node's path and its final immediate_files, immediate_dirs and
\* immediate_size.
C16_ProgressOncePerNode ==
    /\ [][CallFollowsDriverProbe]_vars
    /\ []((Returned /\ ~stop) =>
             /\ DOMAIN calls = DOMAIN nodes
             /\ \A p \in DOMAIN nodes : calls[p] = <<FinalImmediates(p)>>)

C16_Witness ==
    /\ Returned /\ ~stop
    /\ layout = "tree" /\ workers > 1
    /\ attr = [e \in EntryIds |-> "dir"]
    /\ Cardinality(DOMAIN calls) = 5
    /\ calls[<<1>>] = <<<<1, 2, 50>>>>

\* the children list of a JSON object, empty if the key is missing
DocChildren(d) == IF "children" \in DOMAIN d THEN d.children ELSE <<>>

\* some object of the document lacks path or name
RECURSIVE Malformed(_)
Malformed(d) ==
    \/ "path" \notin DOMAIN d
    \/ "name" \notin DOMAIN d
    \/ \E i \in 1 .. Len(DocChildren(d)) : Malformed(DocChildren(d)[i])

\* n has every field of a Node and one child Node for every child object
RECURSIVE FullyBuilt(_, _)
FullyBuilt(n, d) ==
    /\ DOMAIN n = NodeKeys
    /\ Len(n.children) = Len(DocChildren(d))
    /\ \A i \in 1 .. Len(n.children) :
          FullyBuilt(n.children[i].node, DocChildren(d)[i])

\* C17: Node.from_json / Node.from_dict either returns a fully constructed
\* Node tree or fails with an error and returns nothing: for a document that
\* is malformed at any depth (invalid JSON, or a node at any level lacking
\* path or name) no partially built Node is returned to the caller.
C17_LoadIsAllOrNothing ==
    /\ jpc = "loaded" => FullyBuilt(back, doc)
    /\ jpc = "failed" => back = <<>>
    /\ (jpc # "saved" /\ (text # dumps(doc) \/ Malformed(doc))) =>
           (jpc = "failed" /\ IsExc(from_json(text)))

C17_Witness ==
    /\ jpc = "failed"
    /\ text = dumps(doc)
    /\ Len(DocChildren(doc)) = 2
    /\ ~Malformed(doc.children[1])
    /\ "name" \in DOMAIN doc.children[2]
    /\ "path" \in DOMAIN doc.children[2]
    /\ Len(DocChildren(doc.children[2])) = 1
    /\ DOMAIN doc.children[2].children[1] = {"path"}

\* n holds the values of d, 0 for a missing counter, no child for a missing
\* children list, and nothing for a key Node does not know
RECURSIVE Defaulted(_, _)
Defaulted(n, d) ==
    /\ DOMAIN n = NodeKeys
    /\ n.path = d.path
    /\ n.name = d.name
    /\ \A k \in CounterKeys : n[k] = (IF k \in DOMAIN d THEN d[k] ELSE 0)
    /\ Len(n.children) = Len(DocChildren(d))
    /\ \A i \in 1 .. Len(n.children) :
          /\ n.children[i].key = DocChildren(d)[i].name
          /\ Defaulted(n.children[i].node, DocChildren(d)[i])

\* C18: deserializing a snapshot in which any subset of the six counter
\* fields or the children field is missing at any node succeeds, with each
\* missing counter set to 0 and missing children treated as empty; unknown
\* extra fields are ignored and are not an error.
C18_MissingFieldsDefault ==
    (jpc # "saved" /\ text = dumps(doc) /\ ~Malformed(doc)) =>
        (jpc = "loaded" /\ Defaulted(back, doc))

C18_Witness ==
    /\ jpc = "loaded"
    /\ Len(DocChildren(doc)) = 2
    /\ DOMAIN doc.children[1] = {"path", "name", "total_files", "comment"}
    /\ Len(DocChildren(doc.children[2])) = 1
    /\ DOMAIN doc.children[2].children[1] = {"path", "name"}
    /\ back.children[1].node.total_size = 0
    /\ back.children[1].node.total_files = 3
    /\ back.children[2].node.children[1].node.children = <<>>

\* the driving thread's call of _scan_single_dir returns (0, 0, 0, [])
\* and no listing is begun
DriverCallReturnsZero ==
    /\ pc' = "expand"
    /\ cur'.path = cur.path
    /\ cur'.res = ZeroResult
    /\ probes' = probes

\* the same for the call made in a pool thread for the child c
WorkerCallReturnsZero(c) ==
    /\ futs'[c] = [st |-> "finished", res |-> ZeroResult]
    /\ probes' = probes

\* C19: if the cancellation flag is already set when the single-directory
\* probe (_scan_single_dir) is called, it returns (0, 0, 0, []) without
\* opening or listing the directory.
C19_ProbeWithFlagSetReturnsZero ==
    [][/\ (pc = "call" /\ stop) => DriverCallReturnsZero
       /\ \A c \in DOMAIN futs :
             (stop /\ futs[c].st = "queued" /\ futs' # futs) =>
                 (c \in DOMAIN futs' /\ (futs'[c].st # "queued" => WorkerCallReturnsZero(c)))]_vars

C19_Witness ==
    /\ pc = "expand" /\ stop
    /\ cur.path = <<1>>
    /\ cur.res = ZeroResult
    /\ <<1>> \notin DOMAIN probes
    /\ layout = "tree"
    /\ attr[1] = "dir"

\* the probes that ran to their end: <<path, result>>
FinishedProbes ==
    (IF pc = "expand" /\ cur.path \in DOMAIN probes
     THEN {<<cur.path, cur.res>>} ELSE {})
    \cup {<<c, futs[c].res>> : c \in {x \in DOMAIN futs : futs[x].st = "finished"}}

\* the index of the first entry of d whose classification fails with a kind
\* in K, one past the end of the listing if there is none
AbortAt(d, K) ==
    LET es == Listing(d)
        A  == {i \in 1 .. Len(es) : es[i].t = "dir" /\ attr[es[i].id] \in K}
    IN  IF A = {} THEN Len(es) + 1
        ELSE CHOOSE i \in A : \A j \in A : i <= j

\* r counts every entry of the directory before index n whose classification
\* does not fail, and nothing else
CountsEntriesBefore(r, path, n) ==
    LET d  == Ent(path)
        es == Listing(d)
        F  == {j \in FileIndexesOf(d) : j < n}
        D  == {j \in 1 .. Len(es) :
                  j < n /\ es[j].t = "dir" /\ attr[es[j].id] \notin FailingKinds
                        /\ Visible(es[j].id)}
    IN  /\ r.exc = "none"
        /\ r.files = Cardinality(F)
        /\ r.size_sum = SizeOfFiles(d, F)
        /\ r.dirs = Cardinality(D)
        /\ Len(r.child_dirs) = Cardinality(D)
        /\ Range(r.child_dirs) = {path \o <<es[j].id>> : j \in D}

ReadableIndexesOf(d) == {j \in FileIndexesOf(d) : Listing(d)[j].stat = "none"}

RECURSIVE SumOfSizes(_, _)
SumOfSizes(d, J) ==
    IF J = {} THEN 0
    ELSE LET j == CHOOSE x \in J : TRUE
         IN  Listing(d)[j].size + SumOfSizes(d, J \ {j})

\* C21: in the single-directory probe, a regular file whose size cannot be
\* read is still counted in file_count and contributes 0 to size_sum; the
\* failure does not affect the counting of any other entry.
C21_UnreadableSizeCountsFile ==
    ~stop =>
        \A pr \in FinishedProbes :
            LET d == Ent(pr[1]) IN
            Openable(d) =>
                /\ pr[2].files = Cardinality(FileIndexesOf(d))
                /\ pr[2].size_sum = SumOfSizes(d, ReadableIndexesOf(d))
                /\ pr[2].dirs = Cardinality({e \in DirEntriesOf(d) : Visible(e)})

\* the third directory of "wide": three files, the size of the second one
\* (6 bytes) cannot be read
C21_Witness ==
    /\ ~stop
    /\ layout = "wide"
    /\ pc = "expand"
    /\ cur.path = <<3>>
    /\ <<3>> \in DOMAIN probes
    /\ ReadableIndexesOf(3) = {1, 3}
    /\ cur.res.files = 3
    /\ cur.res.size_sum = 6

\* the directory's name begins with "."
Dotted(a) == a.name[1] = "."

\* the attribute lookup succeeded
LookedUp(a) == a.lookup.exc = "none" /\ a.lookup.attrs # INVALID_FILE_ATTRIBUTES

\* the platform marks the directory hidden or system
Marked(a) ==
    /\ a.platform = "nt"
    /\ LookedUp(a)
    /\ (1 \in a.lookup.attrs \/ 2 \in a.lookup.attrs)

HiddenReturned == upc = "returned" /\ "name" \in DOMAIN arg

\* C22 as stated: for every directory, on both platform variants and for
\* every outcome of the platform attribute lookup, is_hidden_or_system_dir
\* never raises and returns true whenever the directory's name begins with
\* '.' or the platform marks it hidden or system.
C22_DottedOrMarkedIsHidden ==
    HiddenReturned =>
        /\ ret.exc = "none"
        /\ (Dotted(arg) \/ Marked(arg)) => ret.value

\* C22 (amended): is_hidden_or_system_dir never raises; on the Windows
\* variant it returns false when the attribute lookup fails, and otherwise
\* true exactly when the attributes have the hidden or the system bit or
\* the name begins with '.'; on the fallback variant it returns true
\* exactly when the name begins with '.'.
C22_HiddenUnlessLookupFails ==
    HiddenReturned =>
        /\ ret.exc = "none"
        /\ ret.value =
              IF arg.platform = "nt"
              THEN LookedUp(arg) /\ (Marked(arg) \/ Dotted(arg))
              ELSE Dotted(arg)

\* a directory .g written with a trailing separator, attributes looked up
\* and neither hidden nor system
C22_Witness ==
    /\ HiddenReturned
    /\ arg.platform = "nt"
    /\ arg.name = <<".", "g">>
    /\ arg.trail = <<"\\">>
    /\ arg.parent = <<"C", ":", "\\">>
    /\ arg.lookup = [exc |-> "none", attrs |-> FILE_ATTRIBUTE_DIRECTORY]
    /\ ret.value

LongReturned == upc = "returned" /\ "path" \in DOMAIN arg

\* C23: to_long_path is idempotent on both platform variants: for every
\* path p, to_long_path(to_long_path(p)) = to_long_path(p), including UNC
\* paths (which get the extended-length UNC prefix exactly once) and the
\* empty path.
C23_ToLongPathIdempotent ==
    LongReturned =>
        /\ ret.twice = ret.once
        /\ (arg.platform = "nt" /\ startswith(arg.path, UncPrefix)
                /\ ~startswith(arg.path, ExtPrefix)) =>
               /\ startswith(ret.once, ExtUncPrefix)
               /\ ~startswith(SubSeq(ret.once, 5, Len(ret.once)), ExtPrefix)
               /\ ~startswith(SubSeq(ret.once, 9, Len(ret.once)), <<"U", "N", "C">>)

C23_Witness ==
    /\ LongReturned
    /\ arg.platform = "nt"
    /\ arg.path = <<"\\", "\\", "s", "\\", "h", "\\", "a", "\\", ".", ".", "\\", "b">>
    /\ ret.once = ExtUncPrefix \o <<"s", "\\", "h", "\\", "b">>
    /\ ret.twice = ret.once

\* a directory listing is begun by the thread that called scan_tree
DriverStartsProbe == pc = "call" /\ pc' = "scan" /\ futs = <<>>

\* C24: with worker count 1 (the default), scan_tree never creates a worker
\* pool and never runs a probe off the calling thread: every probe and every
\* aggregation step executes sequentially on the thread that called
\* scan_tree.
C24_OneWorkerIsSequential ==
    /\ [](workers = 1 => (futs = <<>> /\ pc \notin {"pool", "drain"}))
    /\ [][workers = 1 =>
             /\ ~WorkerStep
             /\ probes' # probes => DriverStartsProbe
             /\ nodes' # nodes => pc \in {"loop", "expand"}]_vars

\* a one-worker scan of the tree with all its five directories
C24_Witness ==
    /\ workers = 1
    /\ Returned /\ ~stop
    /\ layout = "tree"
    /\ Cardinality(DOMAIN probes) = 5
    /\ \A p \in DOMAIN probes : probes[p] = 1

\* C25: with worker count > 1, a child directory whose probe was performed
\* by a pool worker is pushed with its result already known and is not
\* probed again when it is later popped by the driving thread: in one scan
\* every directory is probed at most once.
C25_EveryDirectoryProbedAtMostOnce ==
    \A p \in DOMAIN probes : probes[p] <= 1

\* the expansion of the current node hands its children to a worker pool
Dispatches == pc = "expand" /\ pc' = "pool"

\* the expansion pushes the children as ordinary pending entries
PushesPending ==
    /\ pc = "expand" /\ pc' = "loop"
    /\ futs' = <<>>
    /\ stack' = Pushed(stack, cur.path, Pending(cur.res.child_dirs))

\* C26: with worker count > 1, children are dispatched to the worker pool
\* only when the node being expanded has more than one child and
\* cancellation has not been requested; a node with exactly one child has
\* that child pushed as an ordinary pending entry with no worker pool
\* involved.
C26_PoolOnlyForSeveralChildren ==
    [][/\ Dispatches => (Len(cur.res.child_dirs) > 1 /\ ~stop)
       /\ (pc = "expand" /\ workers > 1 /\ Len(cur.res.child_dirs) = 1)
             => PushesPending]_vars

\* what no step does once the stop event is set: begin a listing, pop an
\* entry, hand children to the pool
NothingNewStarted ==
    /\ probes' = probes
    /\ Len(stack') >= Len(stack)
    /\ ~Dispatches
    /\ \A c \in DOMAIN futs :
          (futs[c].st = "queued" /\ c \in DOMAIN futs' /\ futs'[c].st # "queued")
              => futs'[c] = [st |-> "finished", res |-> ZeroResult]

Totals(n) == <<n.total_files, n.total_dirs, n.total_size>>

\* the aggregation branch of the loop runs for the node p
AggregationStepOf(p) ==
    /\ pc = "loop" /\ pc' = "loop"
    /\ stack # <<>>
    /\ Top = [path |-> p, expanded |-> TRUE]
    /\ stack' = Pop
    /\ nodes'[p].phase = "Aggregated"

\* C28: at every point of a scan, every node whose aggregation step has not
\* yet run has total_files = total_dirs = total_size = 0; totals are written
\* only by the aggregation step.
C28_TotalsZeroUntilAggregated ==
    /\ [](\A p \in DOMAIN nodes :
             nodes[p].phase # "Aggregated" => Totals(nodes[p]) = <<0, 0, 0>>)
    /\ [][\A p \in DOMAIN nodes :
             (p \in DOMAIN nodes' /\ Totals(nodes'[p]) # Totals(nodes[p]))
                 => AggregationStepOf(p)]_vars

\* the second directory of "tree" is aggregated, the root is probed and
\* still waits for its aggregation
C28_Witness ==
    /\ layout = "tree"
    /\ <<2>> \in DOMAIN nodes
    /\ nodes[<<2>>].phase = "Aggregated"
    /\ nodes[<<2>>].total_files = 2
    /\ nodes[<<>>].phase = "Probed"
    /\ nodes[<<>>].immediate_files = 1
    /\ Totals(nodes[<<>>]) = <<0, 0, 0>>

Rank(phase) ==
    CASE phase = "Pending" -> 0
      [] phase = "Probed" -> 1
      [] phase = "Aggregated" -> 2

\* C29: each node moves monotonically through Pending, Probed, Aggregated
\* within one scan: it is aggregated at most once, only after it was probed,
\* and after its aggregation neither its immediate counters, its children
\* mapping nor its totals are written again.
C29_NodePhasesAreMonotone ==
    [][\A p \in DOMAIN nodes :
          /\ p \in DOMAIN nodes'
          /\ Rank(nodes'[p].phase) >= Rank(nodes[p].phase)
          /\ nodes[p].phase = "Aggregated" => nodes'[p] = nodes[p]
          /\ (nodes'[p].phase = "Aggregated" /\ nodes[p].phase # "Aggregated")
                => (nodes[p].phase = "Probed" /\ AggregationStepOf(p))
          /\ (stack # <<>> /\ Top = [path |-> p, expanded |-> TRUE])
                => nodes[p].phase = "Probed"]_vars

\* in pool mode: a child of the root is aggregated and left alone while its
\* sibling is stored by the worker's result and then by the driver's probe
C29_Witness ==
    /\ workers > 1 /\ ~stop
    /\ layout = "wide"
    /\ pc = "loop"
    /\ nodes[<<>>].phase = "Probed"
    /\ <<3>> \in DOMAIN nodes /\ nodes[<<3>>].phase = "Aggregated"
    /\ <<2>> \in DOMAIN nodes /\ nodes[<<2>>].phase = "Probed"
    /\ probes[<<2>>] = 2
    /\ nodes[<<3>>].total_files = 3

\* C30: after a scan that was not cancelled, in either worker mode, every
\* node's children mapping holds exactly the child directories reported by
\* the driving thread's probe of that node, so len(children) =
\* immediate_dirs at every node; this also holds when the directory's
\* contents change between a pool worker's probe and the driving thread's
\* later probe of the same directory (no child node created from the
\* worker's result survives unless the later probe reports it).
C30_ChildrenAreTheDriverProbesDirs ==
    (Returned /\ ~stop) =>
        \A p \in DOMAIN nodes :
            /\ Len(nodes[p].children) = nodes[p].immediate_dirs
            /\ p \in DOMAIN calls =>
                  nodes[p].immediate_dirs = calls[p][Len(calls[p])][2]

(***************************************************************************)
(* The tree that the directory tree determines                             *)
(***************************************************************************)
\* the non-excluded directories among the first k entries of d, in listing order
RECURSIVE DirsInOrder(_, _)
DirsInOrder(d, k) ==
    IF k = 0 THEN <<>>
    ELSE LET e == Listing(d)[k]
         IN  IF e.t = "dir" /\ Visible(e.id)
             THEN Append(DirsInOrder(d, k - 1), e.id)
             ELSE DirsInOrder(d, k - 1)

ExpectedChildren(p) ==
    IF Openable(Ent(p)) THEN DirsInOrder(Ent(p), Len(Listing(Ent(p)))) ELSE <<>>

ExpectedImmediate(p) ==
    LET d == Ent(p) IN
    IF Openable(d)
    THEN <<Cardinality(FileIndexesOf(d)), Len(ExpectedChildren(p)),
           SizeOfFiles(d, FileIndexesOf(d))>>
    ELSE <<0, 0, 0>>

\* totals by the aggregation formulas of scan_tree, children in listing order
RECURSIVE ExpectedTotals(_)
RECURSIVE ExpectedTotalsOver(_, _)
ExpectedTotalsOver(p, ks) ==
    IF ks = <<>> THEN ExpectedImmediate(p)
    ELSE LET t == ExpectedTotalsOver(p, SubSeq(ks, 1, Len(ks) - 1))
             c == ExpectedTotals(p \o <<ks[Len(ks)]>>)
         IN  <<t[1] + c[1], t[2] + 1 + c[2], t[3] + c[3]>>

ExpectedTotals(p) == ExpectedTotalsOver(p, ExpectedChildren(p))

ExpectedNode(p) ==
    [immediate_files |-> ExpectedImmediate(p)[1],
     immediate_dirs |-> ExpectedImmediate(p)[2],
     immediate_size |-> ExpectedImmediate(p)[3],
     total_files |-> ExpectedTotals(p)[1],
     total_dirs |-> ExpectedTotals(p)[2],
     total_size |-> ExpectedTotals(p)[3],
     children |-> ExpectedChildren(p),
     phase |-> "Aggregated"]

TreeOfFilesystem == [p \in ReachablePaths |-> ExpectedNode(p)]

\* C31: with more than one worker and no cancellation, the returned tree
\* (the node set, the six counters of every node and the enumeration order
\* of every children mapping) is the one tree that the directory tree
\* determines, whatever the order in which the worker probes complete; the
\* same holds during the walk for every node that is already aggregated,
\* and every probed node has its children in listing order.
C31_TreeIndependentOfCompletionOrder ==
    (workers > 1 /\ ~stop) =>
        /\ Returned => nodes = TreeOfFilesystem
        /\ \A p \in DOMAIN nodes :
              /\ nodes[p].phase = "Aggregated" => nodes[p] = ExpectedNode(p)
              /\ nodes[p].phase = "Probed" =>
                    /\ nodes[p].children = ExpectedChildren(p)
                    /\ nodes[p].immediate_dirs = Len(ExpectedChildren(p))

\* the third child's probe was collected first, the first child's second
C31_Witness ==
    /\ workers > 1 /\ ~stop
    /\ layout = "wide"
    /\ pc = "loop"
    /\ stack = <<[path |-> <<>>, expanded |-> TRUE],
                 [path |-> <<3>>, expanded |-> FALSE],
                 [path |-> <<1>>, expanded |-> FALSE],
                 [path |-> <<2>>, expanded |-> FALSE]>>
    /\ nodes[<<>>].children = <<1, 2, 3>>
    /\ nodes[<<3>>].immediate_files = 3

\* the driving thread is inside the `with ThreadPoolExecutor` block
InPool == pc \in {"pool", "drain"}

\* no submitted probe is waiting for a thread or running in one
BatchFinished == \A c \in DOMAIN futs : futs[c].st \in {"finished", "collected"}

\* C32: scan_tree never returns, and never starts expanding the next stack
\* entry, while a worker probe submitted by it is still running: each
\* fan-out batch is fully finished, also when the result loop is left
\* early because of cancellation, before the driving thread continues.
C32_BatchFinishedBeforeDriverContinues ==
    [][/\ (InPool /\ ~InPool') => BatchFinished
       /\ ~InPool' => futs' = <<>>
       /\ futs' # futs => (InPool \/ InPool')]_vars

\* the result loop was left by the break while a worker had started the
\* probe of child 1, whose result was never stored
C32_Witness ==
    /\ stop
    /\ pc = "loop"
    /\ futs = <<>>
    /\ <<1>> \in DOMAIN probes /\ probes[<<1>>] = 1
    /\ <<1>> \in DOMAIN nodes /\ nodes[<<1>>].phase = "Pending"
    /\ <<>> \in DOMAIN calls

\* every child of a Node record is stored under its own name, under a key of
\* its own, at every level
RECURSIVE WellKeyed(_)
WellKeyed(n) ==
    /\ \A i \in 1 .. Len(n.children) :
          /\ n.children[i].key = n.children[i].node.name
          /\ \A j \in 1 .. Len(n.children) :
                n.children[i].key = n.children[j].key => i = j
          /\ WellKeyed(n.children[i].node)

\* the Node at path p as scan_tree constructs it: Node(path=cpath, name=cname)
\* stored with node.children[cname] = cn
RECURSIVE ScanNode(_)
ScanNode(p) ==
    MkNode(p, Ent(p), Counters(nodes)[p],
           [i \in 1 .. Len(nodes[p].children) |->
               [key |-> nodes[p].children[i],
                node |-> ScanNode(p \o <<nodes[p].children[i]>>)]])

\* the places (parent, position) at which the node of path p is stored
StoredAt(p) ==
    {<<q, i>> \in (DOMAIN nodes) \X (1 .. Cardinality(EntryIds)) :
        /\ i <= Len(nodes[q].children)
        /\ q \o <<nodes[q].children[i]>> = p}

\* C33: in every tree produced by scan_tree, and in every tree produced by
\* Node.from_dict, each key of a children mapping equals the name field of
\* the Node stored under it, and every node other than the root is stored
\* in exactly one parent's children mapping.
C33_TreesAreWellKeyed ==
    /\ pc = "done" =>
          /\ \A p \in DOMAIN nodes :
                /\ \A i \in 1 .. Len(nodes[p].children) :
                      p \o <<nodes[p].children[i]>> \in DOMAIN nodes
                /\ p # <<>> => Cardinality(StoredAt(p)) = 1
          /\ StoredAt(<<>>) = {}
          /\ WellKeyed(ScanNode(<<>>))
    /\ jpc = "loaded" => WellKeyed(back)

\* a scanned tree with nested children, and a loaded snapshot whose list
\* named child "a" twice
C33_Witness ==
    /\ pc = "done" /\ ~stop
    /\ <<1, 4>> \in DOMAIN nodes
    /\ jpc = "loaded"
    /\ Len(doc.children) = 2
    /\ doc.children[1].name = doc.children[2].name
    /\ Len(back.children) = 1

\* every entry of the list is found under its name, and nothing else is
RECURSIVE ExactMapping(_, _)
ExactMapping(n, d) ==
    LET cds == get(d, "children", <<>>) IN
    /\ Len(n.children) = Len(cds)
    /\ \A i \in 1 .. Len(cds) :
          \E j \in 1 .. Len(n.children) :
              /\ n.children[j].key = cds[i].name
              /\ n.children[j].node.path = cds[i].path
              /\ DOMAIN cds[i] \ {"children"} =
                    {k \in DOMAIN cds[i] \ {"children"} :
                        n.children[j].node[k] = cds[i][k]}
              /\ ExactMapping(n.children[j].node, cds[i])

\* C34: Node.from_dict reconstructs the exact child mapping of the document:
\* every entry of a node's children list is present in the deserialized
\* node's children mapping under its own name, so the number of children of
\* the result equals the number of entries in the list, at every level.
C34_FromDictKeepsEveryEntry ==
    jpc = "loaded" => ExactMapping(back, doc)

\* C35: the progress observer cannot affect the walk: for the same
\* filesystem state, worker count and cancellation behaviour, scan_tree
\* returns the same tree and visits directories in the same order whether
\* or not a progress_cb is supplied and regardless of what the observer
\* does when invoked.
C35_ObserverCannotAffectWalk ==
    (pc = "done" /\ ~stop) =>
        /\ ~raised
        /\ nodes = TreeOfFilesystem
        /\ \A p \in DOMAIN nodes : p \in DOMAIN probes

(***************************************************************************)
(* Properties of the window's scan control                                 *)
(***************************************************************************)
\* C36: in the GUI at most one scan is in progress at any time: _start_scan
\* does nothing while scanning is true, and scanning is reset to false only
\* after the scan thread has stored its result or its error, so no two scan
\* threads ever share the stop event concurrently.
C36_AtMostOneScan ==
    /\ [](/\ gui.alive <= 1
          /\ gui.alive = 1 => (gui.scanning /\ gui.holder = "empty")
          /\ pc # "done" => gui.alive = 1)
    /\ [][/\ gui.scanning =>
                /\ gui'.alive <= gui.alive
                /\ (stop /\ gui'.scanning) => stop'
                /\ pc = "done" => pc' = "done"
          /\ (gui.scanning /\ ~gui'.scanning) =>
                (gui.holder # "empty" /\ gui.alive = 0)]_vars

\* the scan thread has stored its result, the poll has not run yet
C36_Witness ==
    /\ gui.scanning
    /\ gui.holder = "node"
    /\ gui.alive = 0
    /\ pc = "done"
    /\ workers > 1
    /\ nodes = TreeOfFilesystem

\* the walk left the loop by the break, so the root was never aggregated
StoppedEarly == pc = "done" /\ stack # <<>>

\* the walk emptied its stack
RanToCompletion == pc = "done" /\ stack = <<>>

Reported == gui.status \in {"abgebrochen", "abgeschlossen"}

\* C37 as stated: the GUI reports a finished scan as 'Scan abgebrochen.
\* (partielles Ergebnis)' only if scan_tree actually stopped early because
\* it observed the cancellation flag; a scan whose walk ran to completion
\* is always reported as 'Scan abgeschlossen', for every timing of a Stopp
\* click relative to the scan thread's return and the 150 ms result poll.
C37_CancelledReportOnlyIfStoppedEarly ==
    /\ gui.status = "abgebrochen" => StoppedEarly
    /\ (Reported /\ RanToCompletion) => gui.status = "abgeschlossen"

\* C37 (amended): the GUI reports 'Scan abgebrochen. (partielles Ergebnis)'
\* exactly when the stop event is set at the poll that finds the result.  A
\* walk that stopped early is always reported as cancelled and the report
\* 'Scan abgeschlossen' is only given for a walk that ran to completion
\* with the event never set; a walk that ran to completion is reported as
\* cancelled when Stopp was clicked before the poll found its result.
C37_ReportFollowsStopEventAtPoll ==
    Reported =>
        /\ gui.status = "abgebrochen" <=> stop
        /\ StoppedEarly => gui.status = "abgebrochen"
        /\ gui.status = "abgeschlossen" =>
              (RanToCompletion /\ nodes = TreeOfFilesystem)

\* the complete tree is reported as a partial result
C37_Witness ==
    /\ gui.status = "abgebrochen"
    /\ RanToCompletion
    /\ nodes = TreeOfFilesystem
    /\ layout = "tree"

\* C38: when the application is started through app.main and the main
\* window is closed while a scan is running, the scan's stop event is set
\* before the window is destroyed, so the running scan is asked to stop.
C38_CloseStopsRunningScan ==
    [][(gui.window = "open" /\ gui'.window = "destroyed" /\ gui.alive > 0 /\ pc # "done")
          => stop']_vars

\* the values _scan_single_dir has returned to the driving thread or to a
\* future that was not collected yet
ReturnedValues ==
    (IF pc = "expand" THEN {cur.res} ELSE {})
    \cup {futs[c].res : c \in {x \in DOMAIN futs : futs[x].st = "finished"}}

\* a directory that the probe must leave out: hidden or system, or a link
Excluded(e) == is_hidden_or_system_dir(e) \/ ~is_dir(e)

\* C39: every value returned by _scan_single_dir, on every path including
\* the early exit on cancellation and the error paths, satisfies dir_count =
\* length of the returned child path list, and the child path list holds
\* no excluded directory and no duplicate.
C39_DirCountIsLengthOfChildList ==
    \A r \in ReturnedValues :
        /\ r.dirs = Len(r.child_dirs)
        /\ \A i \in 1 .. Len(r.child_dirs) :
              /\ ~Excluded(Ent(r.child_dirs[i]))
              /\ \A j \in 1 .. Len(r.child_dirs) :
                    r.child_dirs[i] = r.child_dirs[j] => i = j

\* the listing of directory 1 ended with an OSError at its third entry,
\* after a hidden directory was left out and a file was counted
C39_Witness ==
    /\ pc = "expand"
    /\ cur.path = <<1>>
    /\ attr[3] = "hidden"
    /\ attr[4] = "cio"
    /\ ~stop
    /\ cur.res.files = 1
    /\ cur.res.dirs = 0
    /\ cur.res.child_dirs = <<>>

====
